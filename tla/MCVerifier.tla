----------------------------- MODULE MCVerifier -----------------------------
(***************************************************************************)
(* Verifier on draws that meet one kind of trouble at a time: two wrong    *)
(* fields, any records agreeing on a wrong field, a fabricated draw, a     *)
(* missing record, an artifact that disagrees with its snapshot, a log of  *)
(* nested calls, failing sources, a review.                                *)
(***************************************************************************)
EXTENDS Verifier, TLC

CONSTANTS MaxLines  \* bound on the lines of a log

EventOf(k) == IF k \in OutcomeKinds THEN "outcome" ELSE k

DrawOf(k) == [op |-> "verify", kind |-> k, commit |-> FALSE, wins |-> FALSE, beyondSafe |-> FALSE]
HonestWorld(k) ==
  [lies |-> <<>>, missing |-> {}, logs |-> <<Invoke(Us), Data(EventOf(k)), Finish(Us)>>,
   serves |-> [s \in Sources |-> "committed"], uri |-> "host", localFile |-> FALSE,
   artifactFile |-> "none", parses |-> TRUE, inspects |-> TRUE, flaky |-> FALSE]
Case(d, w) == [draw |-> d, world |-> w, status |-> "APPROVED", allow |-> FALSE, reviews |-> 0]

Ones(claims) == [c \in claims |-> 1]

Draws == {[DrawOf(k) EXCEPT !.commit = c, !.wins = w] :
            k \in Kinds, c \in BOOLEAN, w \in BOOLEAN}
Asked == {d \in Draws : (d.commit => RngV2(d.kind)) /\ (d.wins => d.kind = "slot")}

TwoLies ==
  UNION {{Case(d, [HonestWorld(d.kind) EXCEPT !.lies = Ones({a, b})]) :
            a \in Claims(d.kind), b \in Claims(d.kind)} : d \in Asked}

Holders(k, f) == {r \in Records : f \in Has(k, r)}
OneFieldLies ==
  UNION {UNION {{Case(d, [HonestWorld(d.kind) EXCEPT !.lies = Ones(rs \X {f})]) :
                   rs \in SUBSET Holders(d.kind, f)} :
                f \in UNION {Has(d.kind, r) : r \in Records}} : d \in Asked}

\* Everything that follows from a forged seed, recomputed.
Fabricated ==
  {Case(d, [HonestWorld(d.kind) EXCEPT !.lies =
     [c \in {x \in Claims(d.kind) : x[2] \in {"seed", "slots", "randomness", "output", "id", "ids",
                                              "claim", "effects", "stops", "rawWin", "payout"}} |->
        IF c[2] \in {"seed", "slots"} THEN 1 ELSE 2]]) : d \in Asked}

Lacking ==
  UNION {{Case(d, w) : w \in
     {[HonestWorld(d.kind) EXCEPT !.missing = {r}] : r \in {"tx", "chunk"} \cup Records}
       \cup {[HonestWorld(d.kind) EXCEPT !.flaky = TRUE], [HonestWorld(d.kind) EXCEPT !.parses = FALSE],
             [HonestWorld(d.kind) EXCEPT !.inspects = FALSE]}
       \cup {[HonestWorld(d.kind) EXCEPT !.artifactFile = a] : a \in {"same", "other", "absent"}}} :
   d \in Asked}

\* Logs of nested calls, cut at any line; junk is other program data.
MayFollow(logs, x) ==
  CASE x.op = "finish" -> EmittedBy(logs, Len(logs)) = x.program
    [] x.op = "data" -> EmittedBy(logs, Len(logs)) # "none"
    [] OTHER -> TRUE
NestedLogs ==
  LET Longer(sets) == UNION {{Append(l, x) : x \in {y \in Lines : MayFollow(l, y)}} : l \in sets}
  IN  FoldLeft(LAMBDA sets, n : sets \cup Longer(sets), {<<>>}, [n \in 1..MaxLines |-> n])
Logged == {Case(DrawOf("list"), [HonestWorld("list") EXCEPT !.logs = l]) : l \in NestedLogs}

Sourced ==
  {Case(DrawOf("rngScale"),
        [HonestWorld("rngScale") EXCEPT !.serves = s @@ [x \in {"unknown"} |-> "error"],
                                        !.uri = u, !.localFile = l]) :
     s \in [Sources \ {"unknown"} -> {"committed", "other", "error"}],
     u \in {"host", "hostless", "unknown", "mirror", "none"}, l \in BOOLEAN}

Reviewed ==
  {[Case(DrawOf(k), HonestWorld(k)) EXCEPT !.status = s, !.allow = a, !.reviews = 1] :
     k \in Kinds, s \in Statuses, a \in BOOLEAN}

\* fetchSnapshotCommitment on the same wrong answers.
Commitments ==
  {[c EXCEPT !.draw.op = "commitment"] :
     c \in {x \in TwoLies \cup Lacking : x.draw.kind \in {"list", "rngScale"} /\ ~x.draw.commit}}

MCWorlds == TwoLies \cup OneFieldLies \cup Fabricated \cup Lacking \cup Logged
              \cup Sourced \cup Reviewed \cup Commitments
=============================================================================
