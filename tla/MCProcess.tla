----------------------------- MODULE MCProcess ------------------------------
(* Workloads for model checking Process.                                   *)
EXTENDS Process

\* Processes come and go; pipes are made, shared, filled, emptied and closed; a
\* writer is killed while a third process keeps the pipe open.
MCWorkloads ==
  {[ops |-> {"fork", "wait", "kill"}, calls |-> 5, sizes |-> {}],
   [ops |-> {"fork", "pipe", "read", "write", "close", "dup"}, calls |-> 5, sizes |-> {1, 3}],
   [ops |-> {"fork", "pipe", "read", "write", "kill"}, calls |-> 6, sizes |-> {2}]}
=============================================================================
