--------------------------- MODULE MCTypeAnalysis ---------------------------
(* Programs for TypeAnalysis: one small program for each way in which types *)
(* meet in the walker.                                                      *)
EXTENDS TypeAnalysis

S == Str("s")
AtLeast2 == Tag("minLength", Num(2))

MCGraph == [
    string |-> TAtom("string"), number |-> TAtom("number"), null |-> TNull, undefined |-> TUndef,
    date |-> TDate, yes |-> TLit(Bool(TRUE)), no |-> TLit(Bool(FALSE)),
    boolean |-> TUnion(<<"no", "yes">>),
    a |-> TLit(Str("a")), b |-> TLit(Str("b")), one |-> TLit(Num(1)), any |-> TAny,
    min2 |-> TBrand(<<AtLeast2>>), text2 |-> TBoth(<<"string", "min2">>),
    maybeText2 |-> TUnion(<<"null", "text2">>), optText |-> TUnion(<<"string", "undefined">>),
    \* interface Cat { kind: 'a'; food: string }    interface Dog { kind: 'b'; food: number }
    \* type Pet = Cat | Dog     interface Owner { pet: Pet; mother?: Owner }
    Cat |-> TNamed("Cat", <<>>, <<Field("kind", "a"), Field("food", "string")>>),
    Dog |-> TNamed("Dog", <<>>, <<Field("kind", "b"), Field("food", "number")>>),
    Pet |-> Aliased(TUnion(<<"Cat", "Dog">>), "Pet"),
    Owner |-> TNamed("Owner", <<>>, <<Field("pet", "Pet"), OptField("mother", "OptOwner")>>),
    OptOwner |-> TUnion(<<"Owner", "undefined">>),
    \* type Twin = { kind: 'a'; x: string } | { kind: 'a'; x: number }
    TwinS |-> TObject(<<Field("kind", "a"), Field("x", "string")>>),
    TwinN |-> TObject(<<Field("kind", "a"), Field("x", "number")>>),
    Twin  |-> Aliased(TUnion(<<"TwinS", "TwinN">>), "Twin"),
    \* interface Leaf { op: 'a' }   interface Pair { op: 'b'; l: Expr }   type Expr = Leaf | Pair
    Leaf |-> TNamed("Leaf", <<>>, <<Field("op", "a")>>),
    Pair |-> TNamed("Pair", <<>>, <<Field("op", "b"), Field("l", "Expr")>>),
    Expr |-> Aliased(TUnion(<<"Leaf", "Pair">>), "Expr"),
    \* interface Base { id: string }   type Message = Base & { replies: Message[] }
    Base |-> TNamed("Base", <<>>, <<Field("id", "string")>>),
    Replies |-> TObject(<<Field("replies", "Messages")>>),
    Messages |-> TArray("Message"),
    Message |-> Aliased(TBoth(<<"Base", "Replies">>), "Message"),
    Thread |-> TNamed("Thread", <<>>, <<Field("top", "Message")>>),
    \* interface Root { notes: Note[] }   type Note = Root & { replies: Note[] }
    Root |-> TNamed("Root", <<>>, <<Field("notes", "Notes")>>),
    Notes |-> TArray("Note"),
    Answers |-> TObject(<<Field("replies", "Notes")>>),
    Note |-> Aliased(TBoth(<<"Root", "Answers">>), "Note"),
    \* interface Page<T> { items: T[] }; Promise<Page<Leaf>>, Page<Base>; type Maybe<T> = { v: T }
    Leafs |-> TArray("Leaf"), Bases |-> TArray("Base"),
    PageLeaf |-> TNamed("Page", <<"Leaf">>, <<Field("items", "Leafs")>>),
    PageBase |-> TNamed("Page", <<"Base">>, <<Field("items", "Bases")>>),
    PromisePage |-> TWrapper("PageLeaf"),
    BoxLeaf |-> Applied(TObject(<<Field("v", "Leaf")>>), "Box", <<"Leaf">>),
    BoxBase |-> Applied(TObject(<<Field("v", "Base")>>), "Box", <<"Base">>),
    Boxes |-> TNamed("Boxes", <<>>, <<Field("l", "BoxLeaf"), Field("b", "BoxBase")>>),
    \* type Address = { street: string & MinLength<2>; zip?: string }; interface User { home, work }
    Address |-> Aliased(TObject(<<Field("street", "text2"), OptField("zip", "optText")>>), "Address"),
    User |-> TNamed("User", <<>>, <<Field("home", "Address"), Field("work", "MaybeAddress")>>),
    MaybeAddress |-> TUnion(<<"Address", "null">>),
    \* type Named = { name: string } & { name: 'a' }
    NameS |-> TObject(<<Field("name", "string")>>), NameA |-> TObject(<<Field("name", "a")>>),
    Labelled |-> Aliased(TBoth(<<"NameS", "NameA">>), "Labelled"),
    \* interface Tagged { /** @minLength 1 */ t: string & MinLength<2>; n: (string & MinLength<2>) | null }
    \* and other tags, among them some that do not apply
    Tagged |-> TNamed("Tagged", <<>>, <<[Field("t", "text2") EXCEPT !.jsdoc = <<Tag("minlength", Num(1))>>],
                                        Field("n", "maybeText2")>>),
    tags2 |-> TBrand(<<Tag("minimum", Num(0)), Tag("type", Str("int32")), Tag("maximum", Str("a"))>>),
    tagged2 |-> TBoth(<<"number", "tags2">>),
    Strict2 |-> TClass("Strict2", <<
                    [Field("n", "tagged2") EXCEPT !.jsdoc = <<Tag("nonnegative", Undef), Tag("min", Num(1)),
                                                              Tag("max", Str("a"))>>],
                    [Field("l", "string") EXCEPT !.jsdoc = <<Tag("len", Num(3)), Tag("trim", Undef),
                                                             Tag("pattern", Str("lower"))>>]>>,
                    <<"passthrough", "strict">>),
    Hidden |-> TClass("Hidden", <<Field("n", "number")>>, <<"tsgonest-ignore">>),
    \* the same tags on interfaces: /** @strict */ interface Loose { n: number }, and Shown
    Loose |-> [TNamed("Loose", <<>>, <<Field("n", "number")>>) EXCEPT !.jsdoc = <<"strict">>],
    Shown |-> [TNamed("Shown", <<>>, <<Field("n", "number")>>) EXCEPT !.jsdoc = <<"tsgonest-ignore">>],
    \* interface Mixed { [k: string]: number; at: ... }, tuples, dates, enums
    Status |-> Aliased(TUnion(<<"a", "b">>), "Status"),
    Point |-> TTuple(<<Elem("number", FALSE, FALSE), Elem("string", TRUE, FALSE)>>),
    Mixed |-> [TNamed("Mixed", <<>>, <<Field("s", "Status"), Field("p", "Point"), Field("d", "date")>>)
                  EXCEPT !.index = <<"string", "any">>],
    Counts |-> [TObject(<<Field("n", "number")>>) EXCEPT !.index = <<"string", "number">>],
    CountsAlias |-> Aliased([TObject(<<Field("n", "number")>>) EXCEPT !.index = <<"string", "number">>],
                            "Counts"),
    \* interface Wide1 { a .. e: string }, and another one
    Wide1 |-> TNamed("Wide1", <<>>, [i \in 1 .. 5 |-> Field(ToString(i), "string")]),
    Wide2 |-> TObject([i \in 1 .. 5 |-> Field(ToString(i), "number")]),
    \* interface Paging { page: number; only: boolean[]; sort: { up: boolean } }
    Sort |-> TObject(<<Field("up", "boolean")>>), Flags |-> TArray("boolean"),
    Paging |-> TNamed("Paging", <<>>, <<Field("page", "number"), Field("only", "Flags"), Field("sort", "Sort")>>),
    \* interface Limits { /** @minimum 1 */ page: number; size: number; sort: Sort; only: Flags }
    \* type Search = Limits & { text: string }, interface Saved { search: Search }
    Limits |-> TNamed("Limits", <<>>, <<[Field("page", "number") EXCEPT !.jsdoc = <<Tag("minimum", Num(1))>>],
                                        Field("size", "number"), Field("sort", "Sort"), Field("only", "Flags")>>),
    SearchText |-> TObject(<<Field("text", "string")>>),
    Search |-> Aliased(TBoth(<<"Limits", "SearchText">>), "Search"),
    Saved |-> TNamed("Saved", <<>>, <<Field("search", "Search")>>),
    \* interface Filter { text: string } in one file, interface Filter { n: number } in another
    Filter1 |-> TNamed("Filter", <<>>, <<Field("text", "string")>>),
    Filter2 |-> TNamed("Filter", <<>>, <<Field("n", "number")>>),
    \* type Invite = { emails: (string & MinLength<2>)[] }
    Emails |-> TArray("text2"),
    Invite |-> TNamed("Invite", <<>>, <<Field("emails", "Emails")>>) ]

Declare(n, f)  == Declaration(n, "interface", n, f)
Alias(n, f)    == Declaration(n, "alias", n, f)
Prog(us, ds, vs) == [uses |-> us, decls |-> ds, calls |-> {}, excluded |-> {}, values |-> vs]

O(f) == Obj(f)
Cat1 == O([kind |-> Str("a"), food |-> S])   Dog1 == O([kind |-> Str("b"), food |-> Num(1)])
Mule == O([kind |-> Str("a"), food |-> Num(1)])
Leaf1 == O([op |-> Str("a")])
Pair1 == O([op |-> Str("b"), l |-> Leaf1])
Pair0 == O([op |-> Str("b"), l |-> Str("s")])
Msg(rs) == O([id |-> S, replies |-> Arr(rs)])
Home1 == O([street |-> Str("s12")])  Home0 == O([street |-> S])

PetProgram == Prog({Use("body", "Owner", "Owner"), Use("return", "Pet", "Pet"), Use("body", "Twin", "Twin")},
    {Declare("Cat", 1), Declare("Dog", 1), Alias("Pet", 1), Declare("Owner", 2), Alias("Twin", 2)},
    {Cat1, Dog1, Mule, Null, O([pet |-> Cat1]), O([pet |-> Mule]), O([pet |-> Cat1, mother |-> O([pet |-> Dog1])]),
     O([pet |-> Cat1, mother |-> O([pet |-> Mule])]),
     O([kind |-> Str("a"), x |-> S]), O([kind |-> Str("a"), x |-> Num(1)]), O([kind |-> Str("b"), x |-> S])})
ExprProgram == Prog({Use("body", "Pair", "Pair"), Use("return", "Expr", "Expr"), Use("returns", "Leaf", "")},
    {Declare("Leaf", 1), Declare("Pair", 1), Alias("Expr", 1)},
    {Leaf1, Pair1, Pair0, O([op |-> Str("b"), l |-> Pair1]), O([op |-> Str("b"), l |-> Pair0]), O([op |-> Str("b")])})
MessageProgram == [Prog({Use("body", "Thread", "Thread"), Use("return", "Messages", ""), Use("body", "Base", "Base")},
    {Declare("Base", 1), Alias("Message", 1), Declare("Thread", 2)},
    {Msg(<<>>), Msg(<<Msg(<<>>)>>), Msg(<<S>>), Msg(<<Msg(<<S>>)>>), O([id |-> S]),
     O([top |-> Msg(<<Msg(<<>>)>>)]), O([top |-> Msg(<<Msg(<<S>>)>>)]), Arr(<<Msg(<<>>)>>), Arr(<<Msg(<<S>>)>>)})
    EXCEPT !.calls = {"Message"}]
PageProgram == Prog({Unwrapped(Use("return", "PromisePage", ""), "Page"), Use("return", "PageBase", "Page"),
                     Use("body", "Boxes", "Boxes")},
    {Declare("Leaf", 1), Declare("Boxes", 1)},
    {O([items |-> Arr(<<Leaf1>>)]), O([items |-> Arr(<<O([id |-> S])>>)]), O([items |-> Arr(<<>>)]),
     O([l |-> O([v |-> Leaf1]), b |-> O([v |-> O([id |-> S])])]), O([l |-> O([v |-> Leaf1]), b |-> O([v |-> Leaf1])])})
AddressProgram == Prog({Use("body", "Address", "Address"), Use("body", "User", "User"), Use("return", "Labelled", "Labelled")},
    {Alias("Address", 1), Declare("User", 2), Alias("Labelled", 1)},
    {Home1, Home0, O([street |-> Str("s12"), zip |-> S]), O([street |-> Str("s12"), zip |-> Null]),
     O([home |-> Home1, work |-> Null]), O([home |-> Home1, work |-> Home0]), O([home |-> Home0, work |-> Null]),
     O([name |-> Str("a")]), O([name |-> S])})
TagProgram == Prog({Use("body", "Tagged", "Tagged"), Use("return", "Wide1", "Wide1"), Use("body", "Wide2", ""),
                    Use("body", "Strict2", "Strict2"), Use("return", "Hidden", "Hidden")},
    {Declare("Tagged", 1), Declare("Strict2", 1), Declare("Hidden", 1)},
    {O([t |-> S, n |-> Null]), O([t |-> S, n |-> S]), O([t |-> S, n |-> Str("s12")]), O([t |-> Str(""), n |-> Null]),
     O([t |-> Null, n |-> Null]), O([n |-> Num(1), l |-> Str("s12")]), O([n |-> Num(0), l |-> Str("s12")]),
     O([n |-> Num(4), l |-> Str("s12")]), O([n |-> Num(3), l |-> S]), O([n |-> Num(3), l |-> Str("S12")]),
     O([n |-> Num(1), l |-> Str("s12"), x |-> Null]),
     O([k \in {"1", "2", "3", "4", "5"} |-> S]), O([k \in {"1", "2", "3", "4", "5"} |-> Num(1)]), O([k \in {"1", "2"} |-> S])})
MixedProgram == Prog({Use("body", "Mixed", "Mixed"), Use("body", "Counts", ""), Use("return", "Status", "Status")},
    {Declare("Mixed", 1), Declaration("Counts", "alias", "CountsAlias", 1), Alias("Status", 1)},
    {O([s |-> Str("a"), p |-> Arr(<<Num(1)>>), d |-> Date]), O([s |-> S, p |-> Arr(<<Num(1)>>), d |-> Date]),
     O([s |-> Str("a"), p |-> Arr(<<Num(1), Num(1)>>), d |-> Date]), O([s |-> Str("a"), p |-> Arr(<<>>), d |-> Date]),
     O([s |-> Str("a"), p |-> Arr(<<Num(1), S>>), d |-> S]), O([n |-> Num(1)]), O([n |-> Num(1), m |-> S]),
     O([n |-> Num(1), m |-> Num(1)]), Str("a"), Str("b"), S})
PagingProgram == [Prog({Use("query", "Paging", "Paging"), Scalar("param", "number"), Use("body", "Filter1", "Filter"),
                       Use("body", "Filter2", "Filter")},
    {Declare("Paging", 1), Declaration("Filter", "interface", "Filter1", 1),
     Declaration("Filter", "interface", "Filter2", 2), Alias("Status", 1)},
    {Num(1), S}) EXCEPT !.excluded = {"Status"}, !.calls = {"Status"}]

LostTagProgram == Prog({Use("body", "Loose", "Loose"), Use("return", "Shown", "Shown")},
    {Declare("Loose", 1), Declare("Shown", 1)},
    {O([n |-> Num(1)]), O([n |-> S]), O([n |-> Num(1), x |-> Null])})
Limits1 == [page |-> Num(1), size |-> Num(1), sort |-> O([up |-> Bool(TRUE)]), only |-> Arr(<<>>)]
SearchProgram == Prog({Use("query", "Search", "Search"), Use("body", "Limits", "Limits"), Use("body", "Saved", "Saved")},
    {Alias("Search", 1), Declare("Limits", 1), Declare("Saved", 2)},
    {O(Limits1), O([Limits1 EXCEPT !.page = Num(0)]), O([text |-> S] @@ Limits1), O([text |-> Null] @@ Limits1),
     O([search |-> O([text |-> S] @@ Limits1)]), O([search |-> O(Limits1)])})

MCPrograms == {PetProgram, ExprProgram, MessageProgram, PageProgram, AddressProgram, TagProgram,
               MixedProgram, PagingProgram, LostTagProgram, SearchProgram}

\* The member of the intersection is the type that the walk began with.
KnotProgram == Prog({Use("body", "Root", "Root"), Use("return", "Pair", "Pair")}, {Declare("Root", 1), Alias("Note", 1)},
    {O([notes |-> Arr(<<>>)])})
\* A constraint on the elements of an array.
ElementProgram == Prog({Use("body", "Invite", "Invite")}, {Declare("Invite", 1)},
    {O([emails |-> Arr(<<Str("s12")>>)]), O([emails |-> Arr(<<S>>)])})
KnotPrograms    == {KnotProgram}
ElementPrograms == {ElementProgram}

MCPassing == [pattern |-> [lower |-> {"s", "s12", "a"}], uppercase |-> {"S"}]
MCNumericBound == [int32 |-> 3]
MCCapitalized == [a |-> "A", b |-> "B"]
=============================================================================
