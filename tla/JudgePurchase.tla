--------------------------- MODULE JudgePurchase ---------------------------
(***************************************************************************)
(* What the paid judge promises of the verdicts it buys, whoever reads     *)
(* them: a run nobody knows a verdict of is claimed, its claim makes one   *)
(* call, and the call's verdict is kept as it came.  A kept verdict is     *)
(* neither bought again nor replaced; it goes only to make room for the    *)
(* verdict of another run.                                                 *)
(***************************************************************************)
EXTENDS Naturals

CONSTANT Verdicts

VARIABLES
    stage,      \* of each run's verdict: unknown, claimed, called, or what it says
    paid        \* calls made for a run: none, one, or more (2)

Init ==
    /\ stage = [k \in DOMAIN paid |-> "unknown"]
    /\ paid = [k \in DOMAIN paid |-> 0]

Claim(k) ==
    /\ stage[k] = "unknown"
    /\ stage' = [stage EXCEPT ![k] = "claimed"]
    /\ UNCHANGED paid

Call(k) ==
    /\ stage[k] = "claimed"
    /\ stage' = [stage EXCEPT ![k] = "called"]
    /\ paid' = [paid EXCEPT ![k] = IF @ = 0 THEN 1 ELSE 2]

Kept == { k \in DOMAIN stage : stage[k] \in Verdicts }

\* The call ended, whatever came back.
Keep(k) ==
    /\ stage[k] = "called"
    /\ \E v \in Verdicts, forgotten \in SUBSET Kept :
          stage' = [j \in DOMAIN stage |->
                        IF j = k THEN v ELSE IF j \in forgotten THEN "unknown" ELSE stage[j]]
    /\ UNCHANGED paid

Next == \E k \in DOMAIN stage : Claim(k) \/ Call(k) \/ Keep(k)

Spec == Init /\ [][Next]_<<stage, paid>>
=============================================================================
