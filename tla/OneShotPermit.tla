--------------------------- MODULE OneShotPermit ---------------------------
(***************************************************************************)
(* What a blink challenge promises to the punch handlers, free of clocks,  *)
(* threads and purging: a permit is offered once, is decided once, and a   *)
(* passed permit can be spent at most once.  Attendance relies on exactly  *)
(* this; LivenessChallenge is shown to implement it.                       *)
(***************************************************************************)
CONSTANT Id          \* challenge ids (secrets.token_urlsafe: never repeated)

VARIABLE permit      \* permit[c]: how far challenge c has come

Stages == {"none", "open", "passed", "spent", "void"}

TypeOK == permit \in [Id -> Stages]

Init == permit = [c \in Id |-> "none"]

Move(c, from, to) == /\ permit[c] \in from
                     /\ permit' = [permit EXCEPT ![c] = to]

Offer(c) == Move(c, {"none"}, "open")
Decide(c) == \/ Move(c, {"open"}, "passed")
             \/ Move(c, {"open"}, "void")
Spend(c) == Move(c, {"passed"}, "spent")

\* Any number of unspent permits may lapse together (a restart).
Lapse(S) == permit' = [c \in Id |-> IF c \in S /\ permit[c] \in {"open", "passed"}
                                   THEN "void" ELSE permit[c]]

Next == \/ \E c \in Id : Offer(c) \/ Decide(c) \/ Spend(c)
        \/ \E S \in SUBSET Id : Lapse(S)

Spec == Init /\ [][Next]_permit
============================================================================
