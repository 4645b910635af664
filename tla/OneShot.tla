------------------------------ MODULE OneShot ------------------------------
(***************************************************************************)
(* What a credential that is good once promises: an authorization code, a  *)
(* refresh token under rotation, a reset or an invitation token.  It is    *)
(* opened, claimed by one request, and that request either gets what the   *)
(* credential stands for or not; nobody gets it a second time.             *)
(***************************************************************************)
EXTENDS Naturals

CONSTANT Grants

VARIABLES
  stage,    \* stage[g]: where the credential g stands
  yields    \* yields[g]: how often somebody got what g stands for

oneShotVars == <<stage, yields>>

Init ==
  /\ stage = [g \in Grants |-> "none"]
  /\ yields = [g \in Grants |-> 0]

Move(g, from, to) ==
  /\ stage[g] = from
  /\ stage' = [stage EXCEPT ![g] = to]

Open(g) == Move(g, "none", "open") /\ UNCHANGED yields
Claim(g) == Move(g, "open", "claimed") /\ UNCHANGED yields
Yield(g) == Move(g, "claimed", "spent") /\ yields' = [yields EXCEPT ![g] = 1]

\* One statement claims and yields.
Redeem(g) ==
  Move(g, "open", "spent") /\ yields' = [yields EXCEPT ![g] = 1]

\* A new credential takes the place of an open one.
Reissue(g, h) ==
  /\ stage[g] = "open" /\ stage[h] = "none"
  /\ stage' = [stage EXCEPT ![g] = "void", ![h] = "open"]
  /\ UNCHANGED yields

\* The claim comes to nothing.
Abandon(g) == Move(g, "claimed", "void") /\ UNCHANGED yields

\* Open credentials expire or are withdrawn, one or, with their tenant, many.
Void(G) ==
  /\ \A g \in G : stage[g] = "open"
  /\ stage' = [g \in Grants |-> IF g \in G THEN "void" ELSE stage[g]]
  /\ UNCHANGED yields

Next ==
  \/ \E g \in Grants : Open(g) \/ Claim(g) \/ Yield(g) \/ Abandon(g) \/ Redeem(g)
  \/ \E g, h \in Grants : Reissue(g, h)
  \/ \E G \in SUBSET Grants : Void(G)

Spec == Init /\ [][Next]_oneShotVars
=============================================================================
