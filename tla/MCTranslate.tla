---------------------------- MODULE MCTranslate ----------------------------
(***************************************************************************)
(* Families of small functions for CvmTranslate.                           *)
(***************************************************************************)
EXTENDS CvmTranslate

MCConstOf == [k0 |-> 0, k1 |-> 1, k3 |-> 3]
MCAddressOf == [m |-> 7, n |-> 8, o |-> 9]
MCNoVal == "void"

I(kind, val, uses) == [kind |-> kind, val |-> val, uses |-> uses, succ |-> << >>, cases |-> << >>]
Op(v, uses) == I("op", v, uses)
Goto(s) == [I("br", MCNoVal, << >>) EXCEPT !.succ = <<s>>]
If(v, s, t) == [I("br", MCNoVal, <<v>>) EXCEPT !.succ = <<s, t>>]
SwitchOn(v, ss, ks) == [I("switch", MCNoVal, <<v>>) EXCEPT !.succ = ss, !.cases = ks]
InvokeTo(v, uses, s, t) == [I("invoke", v, uses) EXCEPT !.succ = <<s, t>>]
Returns(v) == I("ret", MCNoVal, <<v>>)
Block(phis, code) == [phis |-> phis, code |-> code]
Phi(v, from) == [val |-> v, from |-> from]
Fn(params, blocks) == [params |-> params, blocks |-> blocks]

(* A loop with phis, and whatever they get on the back edge: each other,    *)
(* the same value twice, a constant; a call or an operation in the loop;    *)
(* with `last', a phi behind the loop too.  More parameters leave fewer      *)
(* registers, and phis get into slots.                                     *)
Loops ==
  {Fn(ps,
     << Block(<< >>, <<Goto(2)>>),
        Block(<<Phi("x", <<"p", s>>), Phi("y", <<"k1", t>>), Phi("z", <<"k0", u>>)>>,
              <<I(kind, "c", <<"x">>), If("c", 2, 3)>>),
        Block(IF last THEN <<Phi("e", (2 :> "y"))>> ELSE << >>,
              <<Op("r", <<IF last THEN "e" ELSE "x", "z">>), Returns("r")>>) >>)
   : ps \in {<<"p">>, <<"p", "q", "o">>}, s \in {"y", "c", "k0"}, t \in {"x", "z"}, u \in {"x", "y"}, 
     kind \in {"op", "call"}, last \in BOOLEAN}

(* Two ways that meet again.                                               *)
Diamonds ==
  {Fn(<<"p", "q">>,
     << Block(<< >>, <<Op("a", <<"p", "q">>), Op("t", <<"a">>), Op("o", <<"t">>), If("o", 2, 3)>>),
        Block(<< >>, <<Op("b", <<"a", u>>), I("call", "c", <<"b", "q">>), Goto(4)>>),
        Block(<< >>, <<I("select", "s", <<"p", "a", u>>), Goto(4)>>),
        Block(<<Phi("j", (2 :> v @@ 3 :> "s")), Phi("l", (2 :> "a" @@ 3 :> "k1"))>>,
              <<Op("d", <<"j", "l">>), I("call", MCNoVal, <<"d", "q">>), Returns("j")>>) >>)
   : u \in {"p", "k1"}, v \in {"b", "c"}}

(* One block: registers are reused as values die, also across calls.        *)
Straight ==
  {Fn(<<"p">>,
     << Block(<< >>,
          <<I("alloca", "m", << >>), Op("a", <<"p", "p">>), Op("b", <<"a", u>>), Op("c", <<"b", "b">>),
            I("call", "d", <<v, "c">>), I("select", "e", <<"d", v, "m">>), Op("g", <<"e", w>>),
            Op(MCNoVal, <<"g", "p">>), Returns("d")>>) >>)
   : u \in {"a", "k3"}, v \in {"a", "b"}, w \in {"d", "a", "m"}}

(* Three objects in the frame, the address of one of which is in a slot.   *)
Frames ==
  {Fn(<<"p", "q">>,
     << Block(<< >>,
          <<I("alloca", "m", << >>), I("alloca", "n", << >>), I("alloca", "o", << >>),
            Op("a", <<"p", v>>), I("call", "b", <<"a", v, "n">>), Op("c", <<"b", "o", v>>),
            Returns("c")>>) >>)
   : v \in {"m", "o", "q"}}

(* A call that may throw, in a loop.                                       *)
Invokes ==
  {Fn(ps,
     << Block(<< >>, <<Op("x", <<"p">>), Goto(2)>>),
        Block(<<Phi("i", (1 :> "x" @@ 3 :> "h"))>>, <<InvokeTo("v", <<"i", w>>, 3, 4)>>),
        Block(<<Phi("h", (2 :> u))>>, <<Op("r", <<"h", "v">>), If("r", 2, 5)>>),
        Block(<<Phi("g", (2 :> t))>>, <<Op("l", <<"g", "x">>), Returns("l")>>),
        Block(<< >>, <<Returns("v")>>) >>)
   : ps \in {<<"p">>, <<"p", "q">>, <<"p", "q", "o">>}, u \in {"v", "i"}, t \in {"i", "k1", "p"}, w \in {"p", "k3"}}

(* A switch over numbers some of which are cases; the default and some      *)
(* cases make moves.  MCCases has chains, in one of which a branch is relaxed only *)
(* because a later one has been, a table and a table with a hole.          *)
MCCases == {<<3, 0>>, <<3, 0, 6>>, <<1, 2, 3, 4>>, <<0, 1, 2, 4>>, <<6, 3, 0, 9, 12, 15, 18, 21>>}
Switches ==
  {Fn(<<"p">>,
     << Block(<< >>, <<Op("a", <<"p">>), I("select", "w", <<"a", "p", "k3">>), Op("y", <<"w", "a">>),
                       SwitchOn("w", <<d, 2>> \o [k \in 1 .. Len(ks) - 1 |-> 3], ks)>>),
        Block(<< >>, <<Op("c", <<"y">>), Op("b", <<"c", "y">>), Goto(5)>>),
        Block(<<Phi("f", (1 :> u))>>, <<Op("g", <<"f", "y">>), Goto(5)>>),
        Block(<< >>, <<I("unreachable", MCNoVal, << >>)>>),
        Block(<<Phi("j", (2 :> "b" @@ 3 :> "g"))>>, <<Op("r", <<"j", "w">>), Returns("r")>>) >>)
   : ks \in MCCases, d \in {2, 3}, u \in {"y", "k1"}}

(* All four registers taken and 23 scratch registers left: `ks' cases and   *)
(* perhaps the default make a move, and the condition is in a register or,  *)
(* with `x' in its place, in a slot.  A table has 6 to 8 edges with moves   *)
(* (at most 7 fit, 6 if the condition is spilled), a chain 10 to 12 (10).   *)
WideCases == {[k \in 1 .. m |-> k] : m \in {6, 7}} \cup {[k \in 1 .. m |-> 3 * k] : m \in {10, 11}}
WideSwitch(code, d, ks) ==
  Fn(<<"p", "q", "o">>,
     << Block(<< >>, code \o <<SwitchOn("w", <<d>> \o [k \in DOMAIN ks |-> 3], ks)>>),
        Block(<< >>, <<Op("r", <<"o", "q">>), Returns("r")>>),
        Block(<<Phi("f", (1 :> "k1"))>>, <<Op("g", <<"f", "p">>), Returns("g")>>) >>)
WideSwitches ==
  {WideSwitch(code, d, ks) : code \in {<<Op("w", <<"p">>)>>, <<Op("x", <<"p">>), Op("w", <<"x">>)>>},
                             d \in {2, 3}, ks \in WideCases}

MCFunctions == Loops \cup Diamonds \cup Straight \cup Frames \cup Invokes \cup Switches \cup WideSwitches

-----------------------------------------------------------------------------
(* What the moves in front of a switch write is nobody else's.             *)
SwitchSafe(f) ==
  \A b \in Blocks(f) : Term(f, b).kind = "switch" =>
    \A s \in Succs(f, b) :
      /\ PhiVals(f, s) \cap Uses(Term(f, b)) = {}
      /\ \A t \in Succs(f, b) \ {s} : PhiVals(f, s) \cap LiveOnEdge(f, b, t) = {}

AllocasFirst(f) ==
  \A b \in Blocks(f) : \A k \in DOMAIN Code(f, b) :
    Code(f, b)[k].kind = "alloca" => b = 1 /\ \A j \in 1 .. k : Code(f, b)[j].kind = "alloca"

ASSUME \A f \in MCFunctions : IsSsa(f) /\ SwitchSafe(f) /\ AllocasFirst(f)

-----------------------------------------------------------------------------
(* A loop left by a switch: behind the loop the phi is read.                *)
LoopWithSwitch ==
  {Fn(<<"p">>,
     << Block(<< >>, <<Goto(2)>>),
        Block(<<Phi("x", <<"p", "a">>)>>, <<Op("a", <<"x">>), SwitchOn("a", <<3, 2>>, <<0>>)>>),
        Block(<< >>, <<Op("r", <<"x">>), Returns("r")>>) >>)}

ASSUME \A f \in LoopWithSwitch : IsSsa(f)
=============================================================================
