----------------------------- MODULE MCMScript -----------------------------
(***************************************************************************)
(* Programs in which calls nest in expressions, recur, branch and loop,    *)
(* and every operator on the words at its edges.                           *)
(***************************************************************************)
EXTENDS MScript

Num(n)        == <<"num", n>>
Var(x)        == <<"var", <<x, 0>>>>
Member(x, k)  == <<"var", <<x, k>>>>
Op(o, a, b)   == <<"op", o, a, b>>
Un(o, a)      == <<"un", o, a>>
CallOf(f, es) == <<"call", f, es>>
Peek(e)       == <<"peek", e>>
AddrOf(x)     == <<"addr", <<x, 0>>>>
Set(x, e)       == <<"set", <<x, 0>>, e>>
SetMember(x, k, e) == <<"set", <<x, k>>, e>>
Return_(e)      == <<"return", e>>
Do(f, es)       == <<"do", f, es>>
Poke(a, e)      == <<"poke", a, e>>
If(e, s, t)     == <<"if", e, s, t>>
Loop(e, s)      == <<"while", e, s>>

Word1(x)   == [name |-> x, size |-> 1]
Struct(x, n) == [name |-> x, size |-> n]
Func(params, locals, body) ==
  [void |-> FALSE, params |-> params, locals |-> locals, body |-> body]
Proc(params, locals, body) == [Func(params, locals, body) EXCEPT !.void = TRUE]
Main(locals, body) == Func(<<"argc", "argp">>, locals, body)

MCGlobalAt   == [g |-> 3, h |-> 4]
MCGlobalInit == [g |-> 7, h |-> 0]

Only(main) == [main |-> main]

(* Every operator between literals, and under another one.                 *)
Edges == {0, 1, 32767, 32768, 65535}
Shifts == {0, 1, 15, 16, 255}
Operators ==
  {Only(Main(<<>>, <<Return_(Op(o, Num(a), Num(b)))>>)) :
     o \in BinaryOps \ {"<<", ">>"}, a \in Edges, b \in Edges}
  \cup {Only(Main(<<>>, <<Return_(Op(o, Num(a), Num(b)))>>)) :
          o \in {"<<", ">>"}, a \in Edges, b \in Shifts}
  \cup {Only(Main(<<>>, <<Return_(Op("-", Num(a), Un(o, Op("+", Num(b), Num(a)))))>>)) :
          o \in {".-", "~"}, a \in {1, 65535}, b \in {1, 32768}}

(* Every way in which two subtractions of literals, variables and calls    *)
(* can stand in a third, and as the argument of a call.                    *)
Leaves == {Num(3), Var("x"), CallOf("less", <<Var("x")>>)}
Terms  == Leaves \cup {Op("-", a, b) : a \in Leaves, b \in Leaves}
Trees  ==
  {[main |-> Main(<<Word1("x")>>, <<Set("x", Num(9)), Return_(e)>>),
    less |-> Func(<<"n">>, <<>>, <<Return_(Op("-", Var("n"), Num(2)))>>)] :
     e \in {Op("-", a, b) : a \in Terms, b \in Terms}
            \cup {CallOf("less", <<a>>) : a \in Terms}}

(* Recursion with accumulated arguments, as in tests/recursion2.mscr.      *)
Fib ==
  [main |-> Main(<<Word1("x")>>, <<Set("x", CallOf("fib", <<Num(1), Num(0), Num(3)>>)),
                                   Return_(Op("-", Var("x"), Var("argc")))>>),
   fib |-> Func(<<"a", "b", "n">>, <<>>,
     <<If(Op("==", Var("n"), Num(0)), <<Return_(Var("a"))>>,
          <<Return_(CallOf("fib", <<Op("+", Var("a"), Var("b")), Var("a"),
                                    Op("-", Var("n"), Num(1))>>))>>)>>)]

(* A recursive call as an operand, with operands waiting on the stack, and *)
(* calls as arguments of calls.                                            *)
Nested ==
  [main |-> Main(<<Word1("x")>>,
     <<Set("x", CallOf("sum", <<Num(2)>>)),
       Return_(Op("-", Var("x"),
                  Op("*", Num(2), CallOf("sub", <<CallOf("sub", <<Num(5), Var("x")>>),
                                                  CallOf("sum", <<Num(1)>>)>>))))>>),
   sum |-> Func(<<"n">>, <<>>,
     <<If(Var("n"), <<Return_(Op("+", Var("n"), CallOf("sum", <<Op("-", Var("n"), Num(1))>>)))>>,
          <<>>), Return_(Num(0))>>),
   sub |-> Func(<<"a", "b">>, <<Word1("d")>>,
     <<Set("d", Op("-", Var("a"), Var("b"))), Return_(Var("d"))>>)]

(* A loop whose body and condition call, with a global both write.         *)
Looping ==
  [main |-> Main(<<Word1("i"), Word1("y")>>,
     <<Set("i", Num(2)), Set("y", Var("i")),
       Loop(CallOf("left", <<Var("i")>>),
            <<Do("add", <<Var("i"), Op("+", Var("y"), Num(1))>>),
              Set("i", Op("-", Var("i"), Num(1)))>>),
       Set("y", Var("i")), Set("i", Var("y")),
       Return_(Op("+", Var("g"), Var("y")))>>),
   left |-> Func(<<"k">>, <<>>, <<Set("h", Op("+", Var("k"), Num(1))),
                                  Return_(Op(">", Var("k"), Num(0)))>>),
   add |-> Proc(<<"a", "b">>, <<>>,
     <<If(Op("==", Var("a"), Num(1)), <<Set("g", Op("*", Var("g"), Var("b")))>>,
          <<Set("g", Op("+", Var("g"), Var("a"))), Set("h", Var("g"))>>)>>)]

(* Pointers to globals, and an argument that changes what the next reads.  *)
Pointers ==
  [main |-> Main(<<Word1("p")>>,
     <<Set("p", AddrOf("g")), Poke(Var("p"), Op("+", Peek(Var("p")), Num(1))),
       Poke(Op("+", Var("p"), Num(1)), CallOf("bump", <<>>)),
       Return_(Op("-", CallOf("bump", <<>>), Op("+", Var("h"), Peek(AddrOf("g")))))>>),
   bump |-> Func(<<>>, <<>>, <<Set("g", Op("+", Var("g"), Num(1))), Return_(Var("g"))>>)]

(* A struct behind one parameter, kept over a call.                        *)
Members ==
  [main |-> Main(<<>>, <<Return_(CallOf("pair", <<Num(5)>>))>>),
   pair |-> Func(<<"n">>, <<Struct("s", 2), Word1("t")>>,
     <<SetMember("s", 0, Var("n")), SetMember("s", 1, Num(9)), Set("t", Num(4)),
       Do("zero", <<Num(0), Num(0)>>),
       Return_(Op("+", Member("s", 1), Op("*", Member("s", 0), Var("t"))))>>),
   zero |-> Proc(<<"u", "v">>, <<Word1("w")>>, <<Set("w", Var("u"))>>)]

(* A function that ends without a value on one path.                       *)
Falling(n) ==
  [main |-> Main(<<>>, <<Return_(CallOf("some", <<Num(n)>>))>>),
   some |-> Func(<<"k">>, <<>>, <<If(Var("k"), <<Return_(Num(1))>>, <<>>)>>)]

MCPrograms == Operators \cup Trees \cup {Fib, Nested, Looping, Pointers, Members, Falling(0), Falling(1)}

(* A struct behind two words, as in tests/struct3.mscr, and as the first   *)
(* variable.                                                               *)
StructPrograms ==
  {Only(Main(<<Struct("c", 2)>>, <<SetMember("c", 1, Num(6)), Return_(Var("argc"))>>))}
  \cup {[main |-> Main(<<>>, <<Return_(CallOf("f", <<>>))>>),
         f |-> Func(<<>>, <<Struct("c", 2)>>, <<Return_(Num(0))>>)]}

=============================================================================
