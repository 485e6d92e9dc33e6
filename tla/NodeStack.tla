------------------------------ MODULE NodeStack ------------------------------
(***************************************************************************)
(* What a LIFO pool promises its clients: the nodes that are not out with a *)
(* client lie on a stack; acquire takes the one on top, release puts one    *)
(* back on top, each in one step.                                           *)
(***************************************************************************)
EXTENDS Naturals, Sequences

CONSTANT Nodes

VARIABLES stack,   \* the free nodes, the top one first
          out      \* the nodes the clients have

stackVars == <<stack, out>>

StackInit ==
  /\ stack \in Seq(Nodes)
  /\ \A i, j \in DOMAIN stack : stack[i] = stack[j] => i = j
  /\ \A n \in Nodes : \E i \in DOMAIN stack : stack[i] = n
  /\ out = {}

Take ==
  /\ stack # <<>>
  /\ out' = out \union {Head(stack)}
  /\ stack' = Tail(stack)

Put(n) ==
  /\ n \in out
  /\ out' = out \ {n}
  /\ stack' = <<n>> \o stack

StackNext == Take \/ \E n \in Nodes : Put(n)

StackSpec == StackInit /\ [][StackNext]_stackVars
=============================================================================
