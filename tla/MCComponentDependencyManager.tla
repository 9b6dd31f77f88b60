--------------------- MODULE MCComponentDependencyManager ---------------------
(* Three queries over two components: one moves positions by speeds, one      *)
(* changes speeds, so that they may not run side by side, one only reads.     *)
EXTENDS ComponentDependencyManager

Read(c)  == [type |-> c, write |-> FALSE]
Write(c) == [type |-> c, write |-> TRUE]

MCQuery == { [access |-> <<Write("Position"), Read("Speed")>>, chunks |-> 2],
             [access |-> <<Write("Speed")>>, chunks |-> 1],
             [access |-> <<Read("Speed"), Read("Position")>>, chunks |-> 1] }

Symmetry == Permutations(Worker)
================================================================================
