--------------------------- MODULE MCLinearBackends ---------------------------
(***************************************************************************)
(* Dense: emissions with one block over both coordinates, with two blocks  *)
(* in either order, with two rows, and of a single coordinate.             *)
(*                                                                         *)
(* LSMR: one emission has two rows and a range of both coordinates, the    *)
(* other only the second one: block preconditioning must refuse the two    *)
(* together, in both orders, and accept each alone, once or twice.         *)
(*                                                                         *)
(* Schur: one retained block of two coordinates and two eliminated blocks  *)
(* of one.  The emissions couple the retained block with either eliminated *)
(* one, in both orders, or are unary, or have no rows; and three that are  *)
(* not supported: with two eliminated blocks, across the partition, and    *)
(* with half of the retained block.  The partition does not fit dimension  *)
(* 1.                                                                      *)
(***************************************************************************)
EXTENDS LinearBackends

Block(col, cols, values) == [col |-> col, cols |-> cols, values |-> values]

MCEmission ==
  [dense |->
     { [residual |-> <<1>>, blocks |-> <<Block(0, 1, <<<<2>>>>), Block(1, 1, <<<<1>>>>)>>],
       [residual |-> <<2>>, blocks |-> <<Block(1, 1, <<<<3>>>>), Block(0, 1, <<<<1>>>>)>>],
       [residual |-> <<1, 3>>, blocks |-> <<Block(0, 2, <<<<1, 2>>, <<0, 1>>>>)>>],
       [residual |-> <<4>>, blocks |-> <<Block(0, 1, <<<<2>>>>)>>] },
   lsmr |->
     { [residual |-> <<1, 2>>, blocks |-> <<Block(0, 2, <<<<1, 2>>, <<0, 1>>>>)>>],
       [residual |-> <<2>>, blocks |-> <<Block(1, 1, <<<<2>>>>)>>] },
   schur |->
     { [residual |-> <<1, 2>>, blocks |-> <<Block(2, 1, <<<<2>>, <<1>>>>),
                                            Block(0, 2, <<<<1, 2>>, <<0, 1>>>>)>>],
       [residual |-> <<2>>, blocks |-> <<Block(0, 2, <<<<1, 1>>>>), Block(3, 1, <<<<1>>>>)>>],
       [residual |-> <<1>>, blocks |-> <<Block(3, 1, <<<<2>>>>)>>],
       [residual |-> <<>>, blocks |-> <<Block(0, 2, <<>>), Block(2, 1, <<>>)>>],
       [residual |-> <<1>>, blocks |-> <<Block(2, 1, <<<<1>>>>), Block(3, 1, <<<<1>>>>)>>],
       [residual |-> <<1>>, blocks |-> <<Block(1, 2, <<<<1, 1>>>>)>>],
       [residual |-> <<1>>, blocks |-> <<Block(1, 1, <<<<1>>>>)>>] }]

MCDimensions == [dense |-> {0, 1, 2}, lsmr |-> {1, 2}, schur |-> {1, 4}]
MCMaxSent    == [dense |-> 3, lsmr |-> 2, schur |-> 2]
MCSelections == {<<>>, <<0>>, <<1, 0>>}
===============================================================================
