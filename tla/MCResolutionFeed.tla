-------------------------- MODULE MCResolutionFeed --------------------------
(***************************************************************************)
(* ResolutionFeed in several cases.  Two requests at a time: two raffles   *)
(* of one human, a raffle and a demo draw of one address, two draws of one *)
(* partner key, a conditions round that is committed while it is resolved, *)
(* two replays.  A list that a draw of this server and two signatures of   *)
(* other clients get into, and two lists that meet at one artifact.        *)
(***************************************************************************)
EXTENDS ResolutionFeed

CONSTANTS r1, r2, f1, f2, f3, b1, a1

MCWindows == [l \in {"raffle", "partner", "example", "replay"} |-> 2]

Two(a, b) == [r \in {r1, r2} |-> IF r = r1 THEN a ELSE b]
Req(route, client, what, body) == [route |-> route, client |-> client, what |-> what, body |-> body]

Raffles == {Two(Req("raffle", "ip", h, "valid"), Req("raffle", ip, "alice", "valid")) :
              h \in {"alice", NoHuman}, ip \in {"ip", "other ip"}}
Draws == {Two(Req("partner", "key", NoHuman, a), Req("partner", "key", NoHuman, "valid")) :
            a \in {"valid", "scale", "large"}}
         \cup {Two(Req("example", "ip", NoHuman, "valid"), Req("example", "ip", NoHuman, "invalid"))}
Conditions == {Two(Req("commit", "key", "rules 1", "valid"), Req("resolve", "key", "", "valid")),
               Two(Req("commit", "key", "rules 1", "valid"), Req("commit", "key", "rules 2", "invalid"))}
Replays == {Two(Req("replay", "ip", "", "valid"), Req("replay", "ip", "", "valid"))}

Admissions == Raffles \cup Draws \cup Conditions \cup Replays

\* For the lists: a draw of this server, the latest outcomes, commit slots.
NoRequest == Req("none", "key", NoHuman, "valid")
OneDraw == Two(Req("partner", "key", NoHuman, "valid"), NoRequest)
Latest == Two(NoRequest, NoRequest)
Slots == Two(NoRequest, [NoRequest EXCEPT !.client = "two keys"])
Files == Two(NoRequest, [NoRequest EXCEPT !.client = "one key"])

MCCases == Admissions \cup {OneDraw, Latest, Slots, Files}
\* For the claim.
MCHuman == {Two(Req("raffle", "ip", "alice", "valid"), Req("raffle", "other ip", "alice", "valid"))}

OneArtifact == [s \in Signatures |-> a1]

Key(limit, recent, prefer, include) ==
  [limit |-> limit, recent |-> recent, prefer |-> prefer, include |-> include]
MCWarmKey == Key(1, 2, FALSE, FALSE)    \* /api/recent-resolutions
MCListKey == Key(1, Unlimited, FALSE, TRUE)  \* /api/resolutions
MCBlessedKey == Key(1, 0, TRUE, TRUE)   \* /api/participant
MCKeys == {MCWarmKey, MCListKey, MCBlessedKey}
MCBlessed == <<b1>>

MCKeysOf ==
  [c \in Cases |->
     CASE c \in {OneDraw, Latest} -> {MCWarmKey} [] c = Slots -> {MCListKey, MCBlessedKey}
       [] c = Files -> {MCBlessedKey} [] OTHER -> {}]
MCOthersOf ==
  [c \in Cases |-> CASE c = Latest -> {f1, f2, f3} [] c \in {Slots, Files} -> {b1, f3} [] OTHER -> {}]
MCCrashes == [c \in Cases |-> IF c \in {Latest, Slots} THEN 0 ELSE 1]

=============================================================================
