----------------------------- MODULE MCFrontEnd -----------------------------
(***************************************************************************)
(* Instances of FrontEnd for TLC.  Lines have four bytes, and instructions *)
(* at 3 cross a line.                                                      *)
(***************************************************************************)
EXTENDS FrontEnd

I(kind, len, tgt, wrong, flow) == [kind |-> kind, len |-> len, tgt |-> tgt, wrong |-> wrong, flow |-> flow]
One == <<1>>

(* A loop that is taken once, around a call.                               *)
Loop == [ins  |-> (2 :> I("alu", 1, 0, FALSE, <<1, 1>>) @@ 3 :> I("call", 2, 9, FALSE, <<2, 0>>)
                   @@ 5 :> I("cond", 1, 2, TRUE, One) @@ 6 :> I("alu", 1, 0, FALSE, One)
                   @@ 9 :> I("ret", 1, 5, FALSE, One)),
         path |-> <<2, 3, 9, 5, 2, 3, 9, 5, 6, 7>>]
(* Two branches in a row and an indirect jump.                             *)
Maze == [ins  |-> (2 :> I("cond", 1, 6, FALSE, One) @@ 3 :> I("cond", 2, 8, TRUE, One)
                   @@ 5 :> I("alu", 1, 0, FALSE, <<1, 2, 0>>) @@ 6 :> I("ijmp", 1, 2, FALSE, One)
                   @@ 8 :> I("jmp", 1, 2, FALSE, One)),
         path |-> <<2, 3, 5, 6, 2, 6, 8, 2>>]
(* Starts in the middle of a line, with a branch in the shadow of another. *)
Pair == [ins  |-> (3 :> I("alu", 2, 0, FALSE, One) @@ 5 :> I("cond", 1, 8, FALSE, One)
                   @@ 6 :> I("cond", 1, 9, TRUE, One) @@ 8 :> I("jmp", 1, 3, FALSE, One)),
         path |-> <<3, 5, 8, 3, 5, 6, 7>>]
MCPrograms == {Loop, Maze, Pair}

Cfg(preds, fusion, bht_size, ibtb, ras) ==
    [preds |-> preds, fusion |-> fusion, bht_size |-> bht_size, ibtb |-> ibtb, ras |-> ras]
MCConfigs == {
    Cfg(<<"2lev", "2bC">>, "mcfarling", 1, TRUE, "stack"),
    Cfg(<<"bimode", "yags", "perceptron">>, "priority", 1, FALSE, "multistack"),
    Cfg(<<"taken", "nottaken", "btfnt", "2lev">>, "multihybrid", 2, FALSE, "stack"),
    Cfg(<<"2bC">>, "singleton", 1, FALSE, "stack"),
    Cfg(<<"taken", "nottaken">>, "oracle", 1, TRUE, "multistack")}
MCmax_uops == <<2, 1>>
=============================================================================
