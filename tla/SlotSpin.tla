------------------------------ MODULE SlotSpin ------------------------------
(***************************************************************************)
(* Slot artifacts and the replay of a spin (sdk/slot.ts): symbol strips    *)
(* per column, paylines that name a row per column, and a paytable by      *)
(* symbol and number of matches.  An artifact is a header of fields at     *)
(* fixed offsets and a body of bytes whose layout the header determines.   *)
(* The generator of the reel stops is abstract: a stop is any place of the *)
(* strip.  Symbols, rows and columns are numbered from 0, as in the bytes. *)
(***************************************************************************)
EXTENDS Integers, Sequences, SequencesExt

CONSTANTS
  Strips,       \* symbol strips
  Lines,        \* paylines, as sequences of rows
  Rows, Cols,
  WildIdx, ScatterIdx,
  Multiplier,   \* paytable: Multiplier[symbol][count], scaled by MultScale
  MultScale,    \* SLOT_MULTIPLIER_SCALE
  ScaleNum, ScaleDen,
  MaxDim,       \* MAX_SLOT_DIM
  Bets,
  Byte,         \* the values of a byte, 256
  MultBytes,    \* the bytes of a multiplier, 8
  MaxBody,      \* MAX_SLOT_ARTIFACT_BYTES, less the header
  EditAt,       \* places of the body at which a submitter changes a byte
  EditBytes     \* what it puts there

ASSUME SlotAssumption ==
  /\ Rows \in Nat /\ Cols \in Nat \ {0} /\ MultScale \in Nat \ {0}
  /\ ScaleNum \in Nat /\ ScaleDen \in Nat /\ MaxDim \in Nat /\ Bets \subseteq Nat
  /\ Byte \in Nat \ {0, 1} /\ MultBytes \in Nat \ {0} /\ MaxDim < Byte /\ MaxBody \in Nat
  /\ EditAt \subseteq Nat \ {0} /\ EditBytes \subseteq 0..(Byte - 1)

VARIABLES
  at,      \* where the spin is
  spec,    \* the game: reels, paylines, paytable and limits
  wire,    \* the artifact's bytes: header and body
  spin,    \* stops chosen so far
  win      \* the bet and what the replay computed

slotVars == <<at, spec, wire, spin, win>>
NoWire == [body |-> <<>>]

-----------------------------------------------------------------------------
\* Little-endian bytes of a number, and back.
LE(n, width) == [i \in 1..width |-> (n \div Byte ^ (i - 1)) % Byte]
FromLE(bytes) == FoldRight(LAMBDA b, n : b + Byte * n, bytes, 0)

\* encodeSlotArtifact: the checks.
EncodesSlot(g) ==
  LET symbolCount == Len(g.paytable) IN
  /\ g.rows > 0 /\ g.cols > 0 /\ g.rows <= MaxDim /\ g.cols <= MaxDim
  /\ symbolCount > 0 /\ symbolCount < Byte /\ g.wild < symbolCount /\ g.scatter < symbolCount
  /\ Len(g.reels) = g.cols /\ g.paylines # <<>> /\ Len(g.paylines) < Byte ^ 2
  /\ g.num > 0 /\ g.den > 0 /\ g.min <= g.max /\ g.maxWin > 0
  /\ \A c \in DOMAIN g.reels :
       /\ g.reels[c] # <<>> /\ Len(g.reels[c]) < Byte ^ 2
       /\ \A i \in DOMAIN g.reels[c] : g.reels[c][i] < symbolCount
  /\ \A n \in DOMAIN g.paylines :
       Len(g.paylines[n]) = g.cols /\ \A i \in DOMAIN g.paylines[n] : g.paylines[n][i] < g.rows
  /\ \A sym \in DOMAIN g.paytable : Len(g.paytable[sym]) = g.cols + 1

\* encodeSlotArtifact: reels with their length, paylines, paytable.
SlotBody(g) ==
  FlattenSeq([c \in DOMAIN g.reels |-> LE(Len(g.reels[c]), 2) \o g.reels[c]])
    \o FlattenSeq(g.paylines)
    \o FlattenSeq([sym \in DOMAIN g.paytable |->
                     FlattenSeq([n \in DOMAIN g.paytable[sym] |-> LE(g.paytable[sym][n], MultBytes)])])
EncodeSlot(g) ==
  [min |-> g.min, max |-> g.max, maxWin |-> g.maxWin, rows |-> g.rows, cols |-> g.cols,
   symbols |-> Len(g.paytable), wild |-> g.wild, scatter |-> g.scatter, lines |-> Len(g.paylines),
   num |-> g.num, den |-> g.den, body |-> SlotBody(g)]

\* parseSlotArtifact: the checks of the header.
HeaderParses(b) ==
  /\ b.min <= b.max /\ b.maxWin # 0
  /\ b.rows # 0 /\ b.cols # 0 /\ b.rows <= MaxDim /\ b.cols <= MaxDim
  /\ b.symbols # 0 /\ b.wild < b.symbols /\ b.scatter < b.symbols
  /\ b.lines # 0 /\ b.num # 0 /\ b.den # 0

\* parseSlotArtifact: one reel, at the offset where the last one ended.
ReadReel(b, read) ==
  LET from == read.off + 2
      len == FromLE(SubSeq(b.body, read.off + 1, from))
      strip == SubSeq(b.body, from + 1, from + len)
  IN  IF /\ read.ok /\ from <= Len(b.body)
         /\ len # 0 /\ from + len <= Len(b.body)
         /\ \A i \in DOMAIN strip : strip[i] < b.symbols
      THEN [ok |-> TRUE, off |-> from + len, reels |-> Append(read.reels, strip)]
      ELSE [read EXCEPT !.ok = FALSE]
ReadReels(b) ==
  FoldLeft(LAMBDA read, c : ReadReel(b, read), [ok |-> TRUE, off |-> 0, reels |-> <<>>],
           [c \in 1..b.cols |-> c])

PaylinesEnd(b) == ReadReels(b).off + b.lines * b.cols
PaytableEnd(b) == PaylinesEnd(b) + b.symbols * (b.cols + 1) * MultBytes

\* Mutant: the rows of the paylines are not checked.
ParsesSlotAnyRow(b) ==
  /\ Len(b.body) <= MaxBody /\ HeaderParses(b) /\ ReadReels(b).ok
  /\ PaylinesEnd(b) <= Len(b.body) /\ PaytableEnd(b) = Len(b.body)


\* parseSlotArtifact: the tables are read with the header's counts and must end
\* with the bytes, neither before (truncated) nor after (trailing).
ParsesSlot(b) ==
  /\ Len(b.body) <= MaxBody /\ HeaderParses(b) /\ ReadReels(b).ok
  /\ PaylinesEnd(b) <= Len(b.body)
  /\ \A i \in (ReadReels(b).off + 1)..PaylinesEnd(b) : b.body[i] < b.rows
  /\ PaytableEnd(b) = Len(b.body)

\* The game the parsed header and offsets give: replaySpin reads rows and
\* multipliers from the bytes at paylinesOff and paytableOff.
ParsedSlot(b) ==
  LET line(n) == ReadReels(b).off + (n - 1) * b.cols
      cell(sym, n) == PaylinesEnd(b) + ((sym - 1) * (b.cols + 1) + n - 1) * MultBytes
  IN  [min |-> b.min, max |-> b.max, maxWin |-> b.maxWin, rows |-> b.rows, cols |-> b.cols,
       wild |-> b.wild, scatter |-> b.scatter, num |-> b.num, den |-> b.den,
       reels |-> ReadReels(b).reels,
       paylines |-> [n \in 1..b.lines |-> SubSeq(b.body, line(n) + 1, line(n) + b.cols)],
       paytable |-> [sym \in 1..b.symbols |->
                       [n \in 1..(b.cols + 1) |->
                          FromLE(SubSeq(b.body, cell(sym, n) + 1, cell(sym, n) + MultBytes))]]]

\* Bytes no encoder wrote; whoever submits an artifact chooses them.
SlotEdits(b) ==
  {[b EXCEPT !.wild = b.symbols], [b EXCEPT !.scatter = b.wild], [b EXCEPT !.rows = 1],
   [b EXCEPT !.rows = 0], [b EXCEPT !.cols = @ + 1], [b EXCEPT !.cols = @ - 1],
   [b EXCEPT !.symbols = @ - 1], [b EXCEPT !.symbols = @ + 1], [b EXCEPT !.lines = 0],
   [b EXCEPT !.lines = @ + 1], [b EXCEPT !.num = 0], [b EXCEPT !.den = 0],
   [b EXCEPT !.min = b.max + 1], [b EXCEPT !.maxWin = 0],
   [b EXCEPT !.body = Append(@, 0)], [b EXCEPT !.body = Front(@)]}
    \cup {[b EXCEPT !.body[i] = v] : i \in DOMAIN b.body \cap EditAt, v \in EditBytes}

\* The encoder writes the artifact or refuses the game; what is submitted may
\* be something else.
Encode ==
  /\ at = "configured"
  /\ IF EncodesSlot(spec) /\ Len(SlotBody(spec)) <= MaxBody
     THEN wire' \in {EncodeSlot(spec)} \cup SlotEdits(EncodeSlot(spec)) /\ at' = "submitted"
     ELSE at' = "refused" /\ UNCHANGED wire
  /\ UNCHANGED <<spec, spin, win>>

Load ==
  /\ at = "submitted"
  /\ IF ParsesSlot(wire)
     THEN spec' = ParsedSlot(wire) /\ at' = "stopping"
     ELSE at' = "rejected" /\ UNCHANGED spec
  /\ UNCHANGED <<wire, spin, win>>

\* nextInt for the next column.
StopReel ==
  /\ at = "stopping" /\ Len(spin) < spec.cols
  /\ \E stop \in 0..(Len(spec.reels[Len(spin) + 1]) - 1) : spin' = Append(spin, stop)
  /\ UNCHANGED <<at, spec, wire, win>>

\* Mutant: the strip is read past its end as its last symbol.
SymbolAtEnd(col, row) ==
  LET strip == spec.reels[col + 1]
      place == spin[col + 1] + row
  IN  strip[IF place < Len(strip) THEN place + 1 ELSE Len(strip)]

\* grid[row][col]: the strip wraps around.
SymbolAt(col, row) ==
  LET strip == spec.reels[col + 1]
  IN  strip[((spin[col + 1] + row) % Len(strip)) + 1]

\* scaleMultiplierRound after the truncation by the multiplier scale.
Pays(bet, multiplier) ==
  LET base == (bet * multiplier) \div MultScale
  IN  (base * spec.num + spec.den \div 2) \div spec.den

\* Mutant: a leading wild names the run.
FollowWildNames(run, symbol) ==
  CASE run.over -> run
    [] ~run.over /\ symbol = spec.scatter -> [run EXCEPT !.over = TRUE]
    [] ~run.over /\ symbol # spec.scatter /\ symbol = spec.wild /\ run.target # -1 ->
         [run EXCEPT !.count = @ + 1]
    [] OTHER -> IF run.target \in {-1, symbol}
                THEN [run EXCEPT !.target = symbol, !.count = @ + 1]
                ELSE [run EXCEPT !.over = TRUE]

\* One symbol of a payline: a scatter ends the run, a wild lengthens it, the
\* first other symbol names it.
Follow(run, symbol) ==
  CASE run.over -> run
    [] ~run.over /\ symbol = spec.scatter -> [run EXCEPT !.over = TRUE]
    [] ~run.over /\ symbol # spec.scatter /\ symbol = spec.wild -> [run EXCEPT !.count = @ + 1]
    [] OTHER -> IF run.target \in {-1, symbol}
                THEN [run EXCEPT !.target = symbol, !.count = @ + 1]
                ELSE [run EXCEPT !.over = TRUE]

SymbolsOn(line) == [c \in 1..spec.cols |-> SymbolAt(c - 1, line[c])]

LineWin(line, lineBet) ==
  LET run == FoldLeft(Follow, [target |-> -1, count |-> 0, over |-> FALSE], SymbolsOn(line))
      symbol == IF run.target = -1 THEN spec.wild ELSE run.target
  IN  IF run.count >= 3 THEN Pays(lineBet, spec.paytable[symbol + 1][run.count + 1]) ELSE 0

Cells == (0..(spec.cols - 1)) \X (0..(spec.rows - 1))

\* Scatters count anywhere on the grid, and are paid on the whole bet.
ScatterWin(bet) ==
  LET count == Quantify(Cells, LAMBDA cell : SymbolAt(cell[1], cell[2]) = spec.scatter)
      clamped == IF count < spec.cols THEN count ELSE spec.cols
  IN  IF count >= 3 THEN Pays(bet, spec.paytable[spec.scatter + 1][clamped + 1]) ELSE 0

\* replaySpin
ReplaySpin(bet) ==
  LET lineBet == bet \div Len(spec.paylines)
  IN  FoldLeft(LAMBDA sum, line : sum + LineWin(line, lineBet), 0, spec.paylines)
        + ScatterWin(bet)

\* maxWinCap
MaxWinCap(bet) == (bet * spec.maxWin + MultScale \div 2) \div MultScale

Settle ==
  /\ at = "stopping" /\ Len(spin) = spec.cols
  /\ \E bet \in Bets : win' = [bet |-> bet, raw |-> ReplaySpin(bet), cap |-> MaxWinCap(bet)]
  /\ at' = "settled"
  /\ UNCHANGED <<spec, wire, spin>>

SlotNext == Encode \/ Load \/ StopReel \/ Settle

SlotInit ==
  /\ at = "configured" /\ wire = NoWire
  /\ \E reels \in [1..Cols -> Strips], paylines \in BoundedSeq(Lines, 2) :
       spec = [rows |-> Rows, cols |-> Cols, wild |-> WildIdx, scatter |-> ScatterIdx, num |-> ScaleNum,
               den |-> ScaleDen, min |-> 1, max |-> 9, maxWin |-> 5 * MultScale,
               reels |-> reels, paylines |-> paylines, paytable |-> Multiplier]
  /\ spin = <<>> /\ win = [bet |-> 0]

SlotIdle == at = "idle" /\ spec = [rows |-> 0] /\ wire = NoWire /\ spin = <<>> /\ win = [bet |-> 0]

-----------------------------------------------------------------------------
\* What a line pays, said without the loop: the longest run of leading columns
\* without a scatter whose symbols other than the wild agree.
RunsOf(line) ==
  {n \in 0..spec.cols :
     \E symbol \in 0..(Len(spec.paytable) - 1) :
       \A c \in 1..n : SymbolsOn(line)[c] # spec.scatter
                        /\ SymbolsOn(line)[c] \in {spec.wild, symbol}}
LinePays(line, lineBet) ==
  LET n == Max(RunsOf(line))
      named == {SymbolsOn(line)[c] : c \in 1..n} \ {spec.wild}
      symbol == IF named = {} THEN spec.wild ELSE CHOOSE s \in named : TRUE
  IN  IF n >= 3 THEN Pays(lineBet, spec.paytable[symbol + 1][n + 1]) ELSE 0

\* The loop over the columns pays each line for its longest run and for the
\* symbol of that run, whatever wilds and scatters surround it (replaySpin).
LinesPayLongestRun ==
  at = "settled" =>
    LET lineBet == win.bet \div Len(spec.paylines)
    IN  win.raw = FoldLeft(LAMBDA sum, line : sum + LinePays(line, lineBet), 0, spec.paylines)
                    + ScatterWin(win.bet)

\* The symbols under each other in a column are consecutive on its strip, also
\* where the strip starts again, and the rows of every accepted payline are on
\* the grid (replaySpin, parseSlotArtifact).
GridFollowsStrips ==
  at = "settled" =>
    /\ \A n \in DOMAIN spec.paylines, c \in 1..spec.cols : spec.paylines[n][c] \in 0..(spec.rows - 1)
    /\ \A col \in 0..(spec.cols - 1), row \in 0..(spec.rows - 2) :
         LET strip == spec.reels[col + 1]
         IN  \E i \in DOMAIN strip :
               /\ SymbolAt(col, row) = strip[i]
               /\ SymbolAt(col, row + 1) = strip[IF i = Len(strip) THEN 1 ELSE i + 1]

\* Encoder and parser invert each other over every submitted artifact: the bytes of
\* a game parse back to the game, and bytes the parser takes are those the encoder
\* writes for what was parsed, so that no two artifacts are the same game
\* (encodeSlotArtifact, parseSlotArtifact).
SlotParserIsTheEncoder ==
  at = "submitted" =>
    /\ wire = EncodeSlot(spec) => ParsesSlot(wire) /\ ParsedSlot(wire) = spec
    /\ ParsesSlot(wire) => EncodesSlot(ParsedSlot(wire)) /\ EncodeSlot(ParsedSlot(wire)) = wire
=============================================================================
