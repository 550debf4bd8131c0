----------------------------- MODULE DurableMap -----------------------------
(***************************************************************************)
(* What a store promises its callers: a map of records, some flagged, that *)
(* survives the process and the power.  An operation that returns Ok is    *)
(* there for good, and makes everything served before it so; one that      *)
(* fails changes nothing the caller sees and may or may not be found by a  *)
(* later open; nothing else is ever found.                                 *)
(***************************************************************************)
CONSTANTS Keys, Vals, NoVal

VARIABLES
  up,     \* the store is open
  recs,   \* the records it serves
  flags,  \* the flagged keys
  may     \* the contents a later open may find

vars == <<up, recs, flags, may>>

NoRecs == [k \in Keys |-> NoVal]
Content(r, f) == [recs |-> r, flags |-> f]
Current == Content(recs, flags)

(* What each operation makes of the current content.                       *)
Operations ==
  {Content([recs EXCEPT ![k] = v], flags) : k \in Keys, v \in Vals}
    \cup {Content([recs EXCEPT ![k] = NoVal], flags \ {k}) : k \in Keys}
    \cup {Content(recs, flags \cup {k}) : k \in {x \in Keys : recs[x] # NoVal}}
    \cup {Content(recs, flags \ {k}) : k \in flags}
    \cup {Content(NoRecs, {})}

Open ==
  /\ ~up /\ up' = TRUE
  /\ \E c \in may : recs' = c.recs /\ flags' = c.flags
  /\ may' \subseteq may
  /\ Content(recs', flags') \in may'

(* Ok: the new content, and no other, is what a later open finds.          *)
Acknowledge ==
  /\ up
  /\ \E c \in Operations : recs' = c.recs /\ flags' = c.flags /\ may' = {c}
  /\ UNCHANGED up

(* Err: the content served stays, the attempt may still be found.          *)
Doubt ==
  /\ up
  /\ \E c \in Operations : may' \in SUBSET (may \cup {c})
  /\ Current \in may'
  /\ UNCHANGED <<up, recs, flags>>

(* A rewrite that changes no content settles every doubt.                  *)
Settle ==
  /\ up
  /\ may' = {Current}
  /\ UNCHANGED <<up, recs, flags>>

(* The process or the power goes, possibly inside an operation; power may  *)
(* also go while the store is closed.                                      *)
Crash ==
  /\ up' = FALSE /\ recs' = NoRecs /\ flags' = {}
  /\ may' # {}
  /\ \/ may' \subseteq may
     \/ up /\ \E c \in Operations : may' \subseteq may \cup {c}

Init ==
  /\ up = FALSE /\ recs = NoRecs /\ flags = {}
  /\ \E c \in [recs : [Keys -> Vals \cup {NoVal}], flags : SUBSET Keys] : may = {c}

Next == Open \/ Acknowledge \/ Doubt \/ Settle \/ Crash

Spec == Init /\ [][Next]_vars
=============================================================================
