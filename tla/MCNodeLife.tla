----------------------------- MODULE MCNodeLife -----------------------------
(***************************************************************************)
(* The opener of -connect and of one-shots and the opener of -addnode, and  *)
(* two openers by address, with targets of their own or with the same one.  *)
(***************************************************************************)
EXTENDS NodeLife, TLC

CONSTANT MCTargets

MCTargetsOf ==
    [named |-> [open |-> {"one", "con"}, added |-> {"a1", "a2"}],
     own |-> [open |-> {"a1", "a3"}, added |-> {"a2"}],
     shared |-> [open |-> {"a1", "a2"}, added |-> {"a1"}],
     oneshot |-> [open |-> {"one"}, added |-> {"a2"}]]
MCTarget == [o \in Opener |-> MCTargetsOf[MCTargets][o]]
MCByName == {"one", "con"}
MCResolve == [one |-> "a1", con |-> "c"]
MCSymmetry == Permutations(Node)

=============================================================================
