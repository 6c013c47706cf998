---------------------------- MODULE MCCfgKernels ----------------------------
(* Small programs for the control flow kernels. *)
EXTENDS CfgKernels

CONSTANT NumBlocks

B == 1..NumBlocks
Add == <<"add", <<NoName>>>>
Ret == <<"ret", <<>>>>
Br(b) == <<"br", <<b>>>>
BrCond(b, c) == <<"br.cond", <<NoName, b, c>>>>

\* One conditional branch per unordered pair of targets, and one whose two
\* targets are the same block.
Jumps == {Ret} \cup {Br(b) : b \in B}
         \cup {BrCond(q[1], q[2]) : q \in {r \in B \X B : r[1] < r[2]}}
         \cup {BrCond(1, 1)}

\* Blocks that are one jump, and a jump to the entry with code before it.
JumpBlocks == {<<j>> : j \in Jumps} \cup {<<Add, Br(1)>>}

\* Chains and loops of one block more, with a conditional branch at the entry.
Longer == NumBlocks + 1
ChainPrograms ==
  {<<e>> \o p : e \in {<<BrCond(2, 3)>>, <<Br(2)>>, <<Br(Longer)>>},
                p \in [1..NumBlocks -> {<<Ret>>} \cup {<<Br(b)>> : b \in 1..Longer}]}
\* Functions of one block: the least that block-merge can empty.
SingleBlocks == {<<b>> : b \in {<<Ret>>, <<Br(1)>>, <<Add, Br(1)>>}}
JumpPrograms == [B -> JumpBlocks] \cup ChainPrograms \cup SingleBlocks

ASSUME JumpsLast
=============================================================================
