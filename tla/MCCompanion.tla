----------------------------- MODULE MCCompanion -----------------------------
(* A catalogue of small types and of values for and against each of them. *)
EXTENDS Companion

Text   == Atomic("string")
Number == Atomic("number")
Truth  == Atomic("boolean")

User == Object(<<
    Checked(Prop("name", Text), {Limit("minLength", 2), Limit("maxLength", 3)}),
    Checked(Prop("age", Number), {Limit("minimum", 0), Limit("maximum", 9)}),
    OptProp("nick", OrNull(Text)),
    ExactProp("note", Text) >>)

Signup == Object(<<
    [Checked(Prop("mail", Text), {Limit("minLength", 4),
                                   Texts("lowercase", {" a@b", "a@b", "a@bc", "ab"})}) EXCEPT
        !.transforms = <<"trim", "toLowerCase">>],
    [Checked(Prop("size", Number), {Limit("minimum", 1)}) EXCEPT !.coerce = TRUE],
    [OptProp("on", Truth) EXCEPT !.coerce = TRUE],
    [OptProp("role", Text) EXCEPT !.default = Str("ab"), !.transforms = <<"toUpperCase">>] >>)

Product == Strict(Object(<<
    Checked(Prop("lot", Number), {Limit("multipleOf", 2), Limit("exclusiveMaximum", 9)}),
    Checked(Prop("code", Text), {Texts("startsWith", {"ab", "aB"}), Texts("lowercase", {"ab", "b"})}),
    Checked(Prop("byte", Number), {Limit("numericType", 7)}) >>), "strict")

\* Nothing here that assert does not ask for.
Login  == Object(<<
    [Checked(Prop("mail", Text), {Limit("minLength", 4)}) EXCEPT !.transforms = <<"trim", "toLowerCase">>],
    ExactProp("note", Text), Prop("pair", Ref("Pair")) >>)

Form   == Strict(Object(<<Prop("a", Text)>>), "strip")
Scores == Indexed(<<Prop("id", Text)>>, Number)
Tags   == Object(<<Checked(Prop("tags", ArrayOf(Text)),
                           {Limit("minItems", 1), Limit("maxItems", 2),
                            [kind |-> "uniqueItems"]})>>)
Pair   == Tuple(<<Elem(Text, FALSE, FALSE), Elem(OrNull(Number), FALSE, FALSE)>>)
Open   == Tuple(<<Elem(Text, FALSE, FALSE), Elem(Number, TRUE, FALSE), Elem(Truth, FALSE, TRUE)>>)
Paint  == Object(<<Prop("color", Union(<<Literal(Str("red")), Literal(Num(1))>>)),
                   Prop("level", OrNull(Enum({Num(0), Num(1)})))>>)
Event  == Object(<<Prop("at", DateType), Prop("slug", Template({"p-1", "p-2"})),
                   OptProp("any", AnyType)>>)
Loose  == Object(<<Prop("ref", Ref("Missing")), Prop("opt", OrUndef(Number)),
                   Prop("list", ArrayOf(Ref("Form")))>>)
Nick   == Object(<<Checked(Prop("nick", OrNull(Text)), {Limit("minLength", 2)})>>)
Bid    == Object(<<Checked(Prop("bid", OrNull(Number)), {Limit("minimum", 1)})>>)

Mixed  == Object(<<Prop("id", Union(<<Text, Number, Truth>>))>>)
Choice == Union(<<Strict(Object(<<Prop("a", Text)>>), "strip"),
                  Object(<<Prop("a", Text), Prop("b", Number)>>)>>)
Circle == Object(<<Prop("kind", Literal(Str("circle"))),
                   Checked(Prop("r", Number), {Limit("minimum", 0)})>>)
Square == Object(<<Prop("kind", Literal(Str("square"))), Prop("side", Number)>>)
Shape  == Discriminated(<<Ref("Circle"), Ref("Square")>>, "kind", "circle" :> 1 @@ "square" :> 2)
Owned  == Object(<<Prop("a", Text)>>)
Both   == Intersection(<<Ref("Owned"), Ref("Shape")>>)
Masked == Intersection(<<Ref("Form"), Ref("Shape")>>)
\* The walker keeps these, as Record<string, unknown> has no properties.
Bag     == Indexed(<<>>, AnyType)
Joint   == Intersection(<<Ref("Owned"), Bag>>)
Mingled == Intersection(<<Object(<<Checked(Prop("a", Text), {Limit("minLength", 4)})>>),
                          Object(<<[Prop("a", Text) EXCEPT !.transforms = <<"trim">>]>>), Bag>>)
Passed == Object(<<Prop("ok", Literal(Bool(TRUE))), Prop("data", Text)>>)
Failed == Object(<<Prop("ok", Literal(Bool(FALSE))), Prop("error", Text)>>)
Outcome == Discriminated(<<Passed, Failed>>, "ok", "true" :> 1 @@ "false" :> 2)

Node   == Object(<<Checked(Prop("value", Number), {Limit("minimum", 0)}),
                   Prop("next", OrNull(Ref("Node"))), OptProp("pos", Ref("Pair"))>>)
Pet    == Discriminated(<<Object(<<OptProp("kind", Literal(Str("cat")))>>),
                          Object(<<Prop("kind", Literal(Str("dog")))>>)>>, "kind", "cat" :> 1 @@ "dog" :> 2)
Holder == Object(<<Prop("node", Ref("Node"))>>)
Author == Object(<<Prop("name", Text), Prop("book", OrNull(Ref("Book")))>>)
Book   == Object(<<Prop("title", Text), OptProp("by", Ref("Author"))>>)

MCRegistry ==
    [User |-> User, Signup |-> Signup, Login |-> Login, Product |-> Product, Form |-> Form, Scores |-> Scores,
     Tags |-> Tags, Pair |-> Pair, Open |-> Open, Paint |-> Paint, Event |-> Event, Both |-> Both,
     Masked |-> Masked, Owned |-> Owned, Joint |-> Joint, Mingled |-> Mingled, Loose |-> Loose, Nick |-> Nick,
     Bid |-> Bid, Mixed |-> Mixed, Choice |-> Choice,
     Circle |-> Circle, Square |-> Square, Shape |-> Shape, Pet |-> Pet, Outcome |-> Outcome, Node |-> Node,
     Holder |-> Holder, Author |-> Author, Book |-> Book]
MCTypes == DOMAIN MCRegistry \ {"Circle", "Square", "Book", "Owned"}
UnionTypes == {"Mixed", "Choice"}

MCTrimmed  == " a@b" :> "a@b" @@ " A@BC" :> "A@BC"
MCLowered  == "A@BC" :> "a@bc" @@ " A@BC" :> " a@bc"
MCUppered  == "ab" :> "AB"
MCNumerals == "0" :> 0 @@ "1" :> 1

-----------------------------------------------------------------------------
(* Objects with any choice of a value, or none, for each of some keys. *)

None == [tag |-> "absent"]
Objects(f) ==
    {Obj([k \in {j \in DOMAIN g : g[j] # None} |-> g[k]]) :
        g \in {h \in [DOMAIN f -> UNION {f[k] : k \in DOMAIN f}] : \A k \in DOMAIN f : h[k] \in f[k]}}
Lists(S) == {Arr(e) : e \in {<<>>} \cup [1 .. 1 -> S] \cup [1 .. 2 -> S]}

\* No object types are offered a list: a list's indices are not its keys here.
Junk == {Undef, Null, Date, Str("ab"), Num(1), Obj(<<>>)}

Pos    == {None, Undef, Arr(<<Str("x"), Num(1)>>), Arr(<<Num(1)>>)}
Leaf   == Objects([value |-> {None, Num(-1), Num(1), Str("x")}, next |-> {None, Null}, pos |-> Pos])
Leaves == Objects([value |-> {Num(-1), Num(1)}, next |-> {Null, Num(1)}, pos |-> {None}])

InputsOf(n) ==
    CASE n = "User" -> Objects([name |-> {None, Null, Str("a"), Str("ab")},
                                age  |-> {Num(-1), Num(0), NaN, Str("1")},
                                nick |-> {None, Undef, Null, Str("x"), Bool(TRUE)},
                                note |-> {None, Undef, Str("x"), Num(1)}])
      [] n = "Signup" -> Objects([mail |-> {None, Str("a@bc"), Str(" A@BC"), Str(" a@b"), Num(1)},
                                  size |-> {Num(0), Num(1), Str("1"), Str("0"), Str("ab"), Null},
                                  on   |-> {None, Bool(TRUE), Str("1"), Str("0"), Str("ab")},
                                  role |-> {None, Str("AB"), Num(1)}])
      [] n = "Login" -> Objects([mail |-> {None, Str(" A@BC"), Str(" a@b"), Num(1)}, note |-> {None, Undef, Str("x")},
                                 pair |-> {Arr(<<Str("x")>>), Arr(<<Str("x"), Null>>), Arr(<<Num(1), Null>>)}])
      [] n = "Product" -> Objects([lot  |-> {None, Null, NaN, Num(3), Num(4), Num(10), Str("1")},
                                   code |-> {Null, Str("ab"), Str("aB"), Str("b"), Num(1)},
                                   byte |-> {NaN, Num(7), Num(8), Num(-8), Num(-9), Null},
                                   more |-> {None, Undef}])
      [] n = "Form"   -> Objects([a |-> {None, Str("x"), Num(1)}, b |-> {None, Undef, Num(1)}])
      [] n = "Scores" -> Objects([id |-> {None, Str("x"), Num(1)}, x |-> {None, Num(1), Str("x")},
                                  y  |-> {None, Undef, NaN, Num(2)}])
      [] n = "Tags"   -> {Obj([tags |-> l]) : l \in
                            Lists({Str("x"), Str("y"), Num(1)}) \cup
                            {Null, Str("x"), Arr(<<Str("x"), Str("y"), Str("z")>>)}}
      [] n = "Pair"   -> Lists({Str("x"), Num(1), Null}) \cup {Arr(<<Str("x"), Num(1), Num(1)>>)}
      [] n = "Open"   -> Lists({Str("x"), Num(1), Undef}) \cup
                            {Arr(<<Str("x"), Num(1), Bool(TRUE)>>), Arr(<<Str("x"), Num(1), Num(1)>>)}
      [] n = "Paint"  -> Objects([color |-> {None, Null, Str("red"), Str("1"), Num(1)},
                                  level |-> {None, Null, Num(0), Num(2), Str("0")}])
      [] n = "Event"  -> Objects([at |-> {None, Null, Date, Str("x")},
                                  slug |-> {None, Str("p-1"), Str("p"), Num(1)},
                                  any |-> {None, NaN, Arr(<<Undef, Date>>), Obj([k |-> Undef])}])
      [] n \in {"Both", "Masked"} ->
            Objects([a |-> {None, Str("x"), Num(1)}, kind |-> {None, Str("circle"), Str("square")},
                     r |-> {Num(-1), Num(1)}, side |-> {None, Num(1)}])
      [] n \in {"Joint", "Mingled"} ->
            Objects([a |-> {None, Str("x"), Str("a@bc"), Str(" a@b"), Num(1)}, b |-> {None, Num(1)}])
      [] n = "Loose"  -> Objects([ref |-> {None, Undef, Num(1), Date}, opt |-> {None, Undef, Num(1), Null},
                                  list |-> Lists({Obj([a |-> Str("x")]), Obj([a |-> Str("x"), b |-> Num(1)]),
                                                  Num(1)})])
      [] n = "Nick"   -> Objects([nick |-> {None, Undef, Null, Str("a"), Str("ab"), Num(1)}])
      [] n = "Bid"    -> Objects([bid |-> {None, Undef, Null, Num(0), Num(1), Str("x")}])
      [] n = "Mixed"  -> Objects([id |-> {None, Null, NaN, Str("x"), Num(1), Bool(TRUE), Bool(FALSE)}])
      [] n = "Choice" -> Objects([a |-> {None, Str("x"), Num(1)}, b |-> {None, Str("x"), Num(1)}])
      [] n = "Shape"  -> Objects([kind |-> {None, Str("circle"), Str("square"), Str("x"), Num(1)},
                                  r |-> {None, Num(-1), Num(1)}, side |-> {None, Num(1), Str("x")}])
      [] n = "Outcome" -> Objects([ok |-> {None, Bool(TRUE), Bool(FALSE), Str("true"), Str("false")},
                                   data |-> {None, Str("x")}, error |-> {None, Str("x"), Num(1)}])
      [] n = "Pet"    -> Objects([kind |-> {None, Undef, Str("cat"), Str("dog"), Str("x")}])
      [] n = "Node"   -> Leaf \cup Objects([value |-> {Num(-1), Num(1)}, next |-> Leaf, pos |-> {None}])
      [] n = "Holder" -> Objects([node |-> {None, Null} \cup Leaves \cup
                            Objects([value |-> {Num(1)}, next |-> Leaves, pos |-> {None}])])
      [] n = "Author" -> Objects([name |-> {None, Str("x")}, book |-> {None, Null, Num(1)} \cup
                            Objects([title |-> {None, Str("x"), Num(1)},
                                     by |-> {None, Undef, Num(1)} \cup
                                        Objects([name |-> {Str("x"), Num(1)}, book |-> {None, Null}])])])

MCInputs(n) == Junk \cup InputsOf(n) \cup IF n \in {"Pair", "Open"} THEN {} ELSE {Arr(<<>>)}

-----------------------------------------------------------------------------
(* All types with their parts; all values that the calls can leave, with   *)
(* theirs.                                                                 *)

Deeper(Inside(_), S) == S \cup UNION {Inside(x) : x \in S}
WithParts(Inside(_), S) == Deeper(Inside, Deeper(Inside, Deeper(Inside, Deeper(Inside, S))))

PartsOfType(t) == Parts(t) \cup IF t.kind = "object" THEN ToSet(t.index) ELSE {}
MCPartTypes == WithParts(PartsOfType, {MCRegistry[n] : n \in DOMAIN MCRegistry})

Written == Objects([mail |-> {None, Str("a@bc"), Str(" A@BC"), Str(" a@b"), Str("a@b"), Num(1)},
                    size |-> {None, Num(0), Num(1), Str("1"), Str("0"), Str("ab"), Null},
                    on   |-> {None, Bool(TRUE), Bool(FALSE), Str("1"), Str("0"), Str("ab")},
                    role |-> {None, Str("AB"), Str("ab"), Num(1)}])
Entered == Objects([mail |-> {Str("a@bc"), Str("a@b")}, note |-> {None, Undef, Str("x")},
                    pair |-> {Arr(<<Str("x")>>), Arr(<<Str("x"), Null>>), Arr(<<Num(1), Null>>)}])
Cut     == Objects([a |-> {Str("a@b")}, b |-> {None, Num(1)}])
MCJsValues ==
    WithParts(PartsOfValue, Written \cup Entered \cup Cut \cup {Str("A@BC")} \cup UNION {MCInputs(n) : n \in MCTypes})

\* AllValues keeps no call from happening.
RECURSIVE Left(_, _, _)
Left(n, S, times) ==
    IF times = 0 THEN S
    ELSE Left(n, S \cup {ValidateFunction(n, v).v : v \in S} \cup {AssertFunction(n, v).v : v \in S}, times - 1)
ASSUME WideEnough == \A n \in MCTypes : Left(n, MCInputs(n), MaxCalls) \subseteq AllValues

\* Stack suffices: neither is nor assert overflows, and IsMember is HasType.
ASSUME DeepEnough ==
    \A n \in MCTypes : \A v \in MCInputs(n) :
        /\ IsFunction(n, v) # "overflow"
        /\ AssertFunction(n, v).verdict # "overflow"
        /\ \A deg \in {Full, GuardDegree, AssertDegree} : IsMember(n, v, deg) <=> HasType(n, v, deg)

=============================================================================
