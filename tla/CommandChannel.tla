---------------------------- MODULE CommandChannel ----------------------------
(***************************************************************************)
(* What a front end of the simulator promises its clients: a command that  *)
(* a sender issues is executed once and whole, or not at all.  How it is   *)
(* cut into segments, and what a refused one is answered, is left to the   *)
(* front end (TcpChannel).                                                 *)
(***************************************************************************)
EXTENDS Integers, Sequences, Functions

CONSTANT Senders

VARIABLES
  pending,  \* the command each sender is waiting for, 0 for none
  executed, \* the commands executed, in their order
  issued    \* the commands issued so far are 1..issued

channelVars == <<pending, executed, issued>>

Init ==
  /\ pending = [s \in Senders |-> 0]
  /\ executed = <<>>
  /\ issued = 0

Issue(s) ==
  /\ pending[s] = 0
  /\ issued' = issued + 1
  /\ pending' = [pending EXCEPT ![s] = issued + 1]
  /\ UNCHANGED executed

Execute(s) ==
  /\ pending[s] # 0
  /\ executed' = Append(executed, pending[s])
  /\ pending' = [pending EXCEPT ![s] = 0]
  /\ UNCHANGED issued

Drop(s) ==
  /\ pending' = [pending EXCEPT ![s] = 0]
  /\ UNCHANGED <<executed, issued>>

Next == \E s \in Senders : Issue(s) \/ Execute(s) \/ Drop(s)

Spec == Init /\ [][Next]_channelVars

-----------------------------------------------------------------------------

TypeOK ==
  /\ pending \in [Senders -> Nat]
  /\ executed \in Seq(Nat)
  /\ issued \in Nat

\* No command is executed twice.
AtMostOnce == IsInjective(executed)
=============================================================================
