---------------------------- MODULE MCApiPipeline ----------------------------
(* Small programs: one for each way in which the outputs depend on each     *)
(* other or on the order of something.                                      *)
EXTENDS ApiPipeline

Text   == Atomic("string")
Number == Atomic("number")
Truth  == Atomic("boolean")
List(t) == ArrayOf(t)

\* ---- Types ----
User   == Object(<<Checked(Prop("id", Number), {Limit("minimum", 1)}), OptProp("nick", OrNull(Text))>>)
Filter == Object(<<[OptProp("id", Number) EXCEPT !.coerce = TRUE], Prop("nick", Text)>>)
Cat    == Object(<<Prop("kind", Literal(Str("a"))), Prop("id", Number)>>)
Dog    == Object(<<Prop("kind", Literal(Str("b"))), Prop("id", Text)>>)
Pet    == Discriminated(<<Ref("Cat"), Ref("Dog")>>, "kind", "a" :> 1 @@ "b" :> 2)
Tree   == Object(<<Prop("id", Number), Prop("next", OrNull(Ref("Tree")))>>)
Exact  == Strict(Object(<<Prop("id", Number)>>), "strict")
Scores == Indexed(<<>>, Number)
Tally  == Object(<<Prop("by", Ref("Scores"))>>)
Pair   == Object(<<Prop("pair", Tuple(<<Elem(Text, FALSE, FALSE), Elem(Number, FALSE, FALSE)>>)),
                   OptProp("at", DateType)>>)
Both   == Intersection(<<Ref("User"), Ref("Exactly")>>)
Named1 == Object(<<Checked(Prop("nick", Text), {Limit("minLength", 1)})>>)
Level  == Enum({Num(1), Str("a")})
Mixed  == Object(<<Prop("list", List(OrNull(Union(<<Text, Number>>)))), OptProp("level", Ref("Level"))>>)
Page(t) == Object(<<Prop("list", List(t))>>)
Holder == Object(<<Prop("rec", Ref("Record")), Prop("users", List(Ref("User")))>>)
Sse(event, data) == Object(<<Prop("event", Literal(Str(event))), Prop("data", data)>>)

MCRegistry ==
    [User |-> User, Filter |-> Filter, Cat |-> Cat, Dog |-> Dog, Pet |-> Pet, Tree |-> Tree, Exact |-> Exact,
     Scores |-> Scores, Tally |-> Tally, Pair |-> Pair, Both |-> Both, Exactly |-> Named1, Level |-> Level, Mixed |-> Mixed,
     Page_User |-> Page(Ref("User")), Page_Dog |-> Page(Ref("Dog")), Record |-> Named1, Holder |-> Holder,
     Twin |-> Named1]

MCTrimmed  == <<>>
MCNumerals == "1" :> 1 @@ "0" :> 0
MCDirNames == [UsersController |-> "users", PetsController |-> "pets", V1Controller |-> "v1", UserController |-> "users"]
MCNameEnds == {<<"recreate", "create">>}

O(f) == Obj(f)
MCData ==
    {Undef, Null, Num(0), Num(1), Str("a"), Str(""), Str("iso"), Bool(TRUE), Date, Arr(<<>>), Arr(<<Str("a"), Num(1)>>), Arr(<<Num(1)>>), Arr(<<Str("a"), Null>>), O(<<>>),
     O([id |-> Num(1)]), O([id |-> Num(0)]), O([id |-> Str("1"), nick |-> Str("a")]), O([id |-> Num(1), nick |-> Null]),
     O([id |-> Num(1), nick |-> Str("a")]), O([id |-> Num(1), nick |-> Num(1)]), O([nick |-> Str("")]), O([nick |-> Str("a")]),
     O([kind |-> Str("a"), id |-> Num(1)]), O([kind |-> Str("b"), id |-> Str("a")]), O([kind |-> Str("b"), id |-> Num(1)]),
     O([id |-> Num(1), next |-> Null]), O([id |-> Num(1), next |-> O([id |-> Num(0), next |-> Null])]),
     O([id |-> Num(1), next |-> O([id |-> Null])]),
     O([pair |-> Arr(<<Str("a"), Num(1)>>), at |-> Date]), O([pair |-> Arr(<<Str("a")>>)]),
     O([list |-> Arr(<<Null, Num(1)>>)]), O([list |-> Arr(<<Str("a")>>), level |-> Num(1)]), O([list |-> Null]),
     O([list |-> Arr(<<O([id |-> Num(1)])>>)]), O([list |-> Arr(<<O([kind |-> Str("b"), id |-> Str("a")])>>)]),
     Arr(<<O([id |-> Num(1)]), O([id |-> Num(1), nick |-> Str("a")])>>), Arr(<<O([id |-> Str("a")])>>),
     O([rec |-> O([nick |-> Str("a")]), users |-> Arr(<<O([id |-> Num(1)])>>)]), O([rec |-> O(<<>>), users |-> Arr(<<>>)]),
     O([by |-> O([id |-> Num(1)])]), O([by |-> O([id |-> Str("a")])])}
MCUrlTexts == {Undef, Str("1"), Str("0"), Str("true"), Str("a")}

Deeper(Inside(_), S) == S \cup UNION {Inside(x) : x \in S}
WithParts(Inside(_), S) == Deeper(Inside, Deeper(Inside, Deeper(Inside, Deeper(Inside, S))))
MCPartTypes == WithParts(Parts, {MCRegistry[n] : n \in DOMAIN MCRegistry})
MCJsValues  == WithParts(PartsOfValue, MCData \cup MCUrlTexts)

\* ---- Programs ----
Plain200 == [prefix |-> <<>>, versioning |-> "", versionPrefix |-> "v", default |-> ""]
Versioned == [prefix |-> <<Lit("api")>>, versioning |-> "URI", versionPrefix |-> "v", default |-> ""]
ByHeader  == [prefix |-> <<Lit("api")>>, versioning |-> "HEADER", versionPrefix |-> "v", default |-> ""]
Body(t)         == Param("Body", "", "dto", t)
Query(n, t)     == Param("Query", n, n, t)
PathParam(n, t) == Param("Param", n, n, t)
Whole(dec, t)   == [Param(dec, "", "q", t) EXCEPT !.typeName = t.ref]
Path(s) == <<<<Lit(s)>>>>
Id      == <<<<Var("id")>>>>

V == Return(TRUE, "value")
P == Return(TRUE, "promise")
C == Return(TRUE, "choice")
N == Return(TRUE, "null")
Inner == Return(FALSE, "value")

Code(name, functions) ==
    [File(name, "esm", <<Import("@nestjs/common", {"Controller"})>>, <<>>, functions) EXCEPT !.reflects = TRUE]
Fn(class, name, returns) == Function(class, name, FALSE, returns)
Case(classes, code, named, opts) ==
    [classes |-> classes, files |-> code, typesByFile |-> named, opts |-> opts, leftover |-> {}]
All == "types" :> (DOMAIN MCRegistry \ {"Scores"})

\* @Controller('users') with a body, a parameter, a query, several returns, a
\* helper and a service in the same file.
UsersClass(handlers) == Class("UsersController", "users", Path("users"), handlers)
UsersFile(functions) == Code("users", functions)
Crud == Case(<<UsersClass(<<
            Method("create", "Post", <<>>, <<Body(Ref("User"))>>, Ref("User")),
            Method("find", "Get", Id, <<PathParam("id", Number), Query("all", Truth), Query("nick", Text)>>, Ref("User")),
            Method("list", "Get", <<>>, <<Whole("Query", Ref("Filter"))>>, List(Ref("User"))),
            Method("count", "Get", Path("count"), <<>>, Number),
            Method("remove", "Delete", Id, <<Param("Param", "id", "key", Number), Param("Req", "", "req", AnyType)>>, Void)>>)>>,
        <<UsersFile(<<Fn("UsersController", "create", <<P>>), Fn("UsersController", "find", <<V, Inner, P>>),
                      Fn("UsersController", "list", <<Inner, V>>), Fn("UsersController", "count", <<N, V>>),
                      Fn("UsersController", "remove", <<P>>), Fn("UsersController", "helper", <<V>>),
                      Fn("Service", "load", <<P>>)>>)>>, All, Plain200)

\* Names that a search takes for each other; a conditional expression.
Alike == Case(<<UsersClass(<<Method("create", "Post", <<>>, <<Body(Ref("User"))>>, Ref("User"))>>)>>,
        <<UsersFile(<<Fn("UsersController", "recreate", <<V>>), Fn("UsersController", "create", <<C, N>>)>>)>>, All, Plain200)
Conditional == Case(<<UsersClass(<<Method("create", "Post", <<>>, <<Body(Ref("User")), [Body(Ref("Filter")) EXCEPT !.local = "more"]>>, Ref("User"))>>)>>,
        <<UsersFile(<<Fn("UsersController", "create", <<C, N, P>>)>>)>>, All, Plain200)

\* /api/v1/users and /api/v2/users, /api/v1/ and a route without a version.
Versions == [Case(<<[UsersClass(<<
                [Method("find", "Get", Id, <<PathParam("id", Text)>>, Ref("User")) EXCEPT !.versions = <<"1", "2">>],
                Method("list", "Get", <<>>, <<>>, List(Ref("User")))>>) EXCEPT !.version = "1"],
             Class("PetsController", "users", <<>>, <<[Method("root", "Get", <<>>, <<>>, Ref("Pet")) EXCEPT !.versions = <<"1">>],
                                                       Method("one", "Get", <<<<Lit("one"), Var("id")>>>>, <<>>, Ref("Cat"))>>)>>,
        <<UsersFile(<<Fn("UsersController", "find", <<V>>), Fn("UsersController", "list", <<V>>),
                      Fn("PetsController", "root", <<V>>), Fn("PetsController", "one", <<P>>)>>)>>, All, Versioned)
        EXCEPT !.leftover = {<<"old">>, <<"v1">>, <<"v1", "users">>, <<"v1", "gone">>, <<"v3">>, <<"v3", "users">>}]
HeaderVersions == [Versions EXCEPT !.opts = ByHeader]

\* Array paths, @All, and a slot that two routes take.
Several == Case(<<UsersClass(<<Method("many", "Get", <<<<Lit("a")>>, <<Lit("b")>>>>, <<>>, Ref("User")),
                               Method("any", "All", Path("c"), <<Body(Ref("User"))>>, Text)>>)>>,
        <<UsersFile(<<Fn("UsersController", "many", <<V>>), Fn("UsersController", "any", <<V>>)>>)>>, All, Plain200)
Taken == Case(<<[UsersClass(<<Method("first", "Get", Path("a"), <<>>, Ref("User")),
                               Method("again", "Get", Path("a"), <<>>, Ref("Cat")),
                               Method("put", "Put", <<>>, <<Body(Ref("Exact"))>>, Ref("User"))>>)
                    EXCEPT !.paths = <<<<Lit("users")>>, <<Lit("people")>>>>]>>,
        <<UsersFile(<<Fn("UsersController", "first", <<V>>), Fn("UsersController", "again", <<V>>),
                      Fn("UsersController", "put", <<V>>)>>)>>, All, Plain200)

\* Two classes of one file, both with interceptors; two with one directory.
Classes == Case(<<UsersClass(<<Method("create", "Post", <<>>, <<Body(Ref("User"))>>, Truth)>>),
                  Class("PetsController", "users", Path("pets"), <<Method("adopt", "Post", <<>>, <<Body(Ref("Pet"))>>, Ref("Pet"))>>)>>,
        <<UsersFile(<<Fn("UsersController", "create", <<P, V>>), Fn("PetsController", "adopt", <<V>>)>>)>>, All, Plain200)
OneDir == Case(<<UsersClass(<<Method("create", "Post", <<>>, <<>>, Truth)>>),
                 Class("UserController", "user", Path("user"), <<Method("get", "Get", <<>>, <<>>, Void)>>)>>,
        <<UsersFile(<<Fn("UsersController", "create", <<V>>)>>), Code("user", <<Fn("UserController", "get", <<V>>)>>)>>, All, Plain200)

\* Bodies and answers of every kind of type; the order of the routes decides
\* which of them registers a name first.
Kinds(list) == Case(<<UsersClass([i \in DOMAIN list |->
                    Method("m" \o ToString(i), "Post", Path("m" \o ToString(i)), <<Body(list[i])>>, list[i])])>>,
        <<UsersFile([i \in DOMAIN list |-> Fn("UsersController", "m" \o ToString(i), <<V>>)])>>, All, Plain200)
InlineUser == Object(<<Prop("id", Number), OptProp("nick", OrNull(Text))>>)
InlineDog  == Object(<<Prop("list", List(Object(Dog.props)))>>)
KindPrograms == {Kinds(<<Ref("Pet"), Ref("Cat"), Ref("Tree")>>), Kinds(<<Ref("Tree"), OrNull(Ref("Pet")), Ref("Both")>>),
                 Kinds(<<Ref("Exact"), Ref("Pair"), Ref("Tally")>>), Kinds(<<Ref("Mixed"), Ref("Level"), Union(<<Ref("Cat"), Text>>)>>),
                 Kinds(<<InlineUser, Ref("User"), List(List(Ref("User")))>>), Kinds(<<InlineDog, Ref("Dog"), OrNull(List(OrNull(Text)))>>),
                 Kinds(<<Ref("Holder"), Ref("Record"), List(Ref("Record"))>>), Kinds(<<Ref("Twin"), Ref("Exactly"), Named1>>),
                 Kinds(<<List(Union(<<Text, OrNull(Number)>>)), List(Enum({Str("a"), Num(1)})), Literal(Str("a"))>>)}

\* Instances of a generic type under one name.
Pages == Case(<<UsersClass(<<Method("users", "Get", Path("a"), <<>>, Named(Ref("Page_User"), "Page")),
                             Method("dogs", "Get", Path("b"), <<>>, Named(Ref("Page_Dog"), "Page"))>>)>>,
        <<UsersFile(<<Fn("UsersController", "users", <<V>>), Fn("UsersController", "dogs", <<V>>)>>)>>, All, Plain200)

\* Events, with and without design types among the decorators.
Created == Sse("a", Ref("User"))
Removed == Sse("b", Ref("Dog"))
Events(reflects) == Case(<<UsersClass(<<
                Method("watch", "EventStream", <<>>, <<>>, Union(<<Created, Removed>>)),
                Method("ticks", "Sse", Path("t"), <<Query("n", Number)>>, Ref("User")),
                Method("any", "EventStream", Path("any"), <<>>, Object(<<Prop("event", Text), Prop("data", Ref("Cat"))>>))>>)>>,
        <<[UsersFile(<<Fn("UsersController", "watch", <<V>>), Fn("UsersController", "ticks", <<V>>),
                       Fn("UsersController", "any", <<V>>)>>) EXCEPT !.reflects = reflects]>>, All, Plain200)

\* Answers by decorators, raw responses, hidden and dynamic routes, files,
\* texts, errors and redirections.
Decorated == Case(<<UsersClass(<<
            [Method("report", "Get", Path("r"), <<Param("Res", "", "res", AnyType)>>, AnyType) EXCEPT
                !.returns = <<Returns(Text, "text/csv", 0), Returns(Ref("User"), "", 202)>>],
            [Method("made", "Post", Path("made"), <<Param("Body", "", "raw", Text)>>, AnyType) EXCEPT
                !.returns = <<Returns(Ref("User"), "", 202)>>, !.throws = <<[status |-> 404, name |-> "User"], [status |-> 400, name |-> "Dog"]>>],
            [Method("secret", "Get", Path("s"), <<PathParam("id", Number)>>, Ref("User")) EXCEPT !.hidden = TRUE],
            [Method("dynamic", "Get", <<>>, <<Query("id", Number)>>, Ref("User")) EXCEPT !.dynamic = TRUE],
            [Method("moved", "Get", Path("old"), <<>>, Void) EXCEPT !.redirect = 302, !.httpCode = 204],
            Method("upload", "Post", Path("up"), <<Param("FormDataBody", "", "form", Ref("User"))>>, Truth)>>),
        [Class("PetsController", "users", Path("pets"), <<Method("see", "Get", <<>>, <<>>, Ref("Dog"))>>) EXCEPT !.hidden = TRUE]>>,
        <<UsersFile(<<Fn("UsersController", "report", <<V>>), Fn("UsersController", "made", <<V>>), Fn("UsersController", "secret", <<P>>),
                      Fn("UsersController", "dynamic", <<V>>), Fn("UsersController", "moved", <<V>>), Fn("UsersController", "upload", <<V>>),
                      Fn("PetsController", "see", <<V>>)>>)>>, All, Plain200)

\* Marker calls in two files; a type of one name in two others.
Marker(f, t) == Call(f, f, t)
Other(f)     == Call(f, "", "")
Guarding(name, calls, names) ==
    File(name, "esm", <<Import("x", {"y"}), Import("tsgonest", names)>>, calls, <<Fn("", "run", <<V>>)>>)
Calls == Case(<<UsersClass(<<Method("create", "Post", <<>>, <<Body(Ref("User"))>>, Void)>>)>>,
        <<Guarding("a", <<Marker("is", "User"), Other("parse"), Marker("assert", "Dog"), Marker("is", "Cat"), Marker("is", "User")>>,
                   {"is", "assert"}),
          Guarding("b", <<Marker("is", "User"), Other("is"), Call("is", "is", "")>>, {"is"}),
          [UsersFile(<<Fn("UsersController", "create", <<V>>), Fn("UsersController", "load", <<P>>)>>) EXCEPT
              !.imports = <<Import("tsgonest", {"stringify"})>>, !.calls = <<Marker("stringify", "User"), Marker("stringify", "Cat")>>]>>,
        "a" :> {"User", "Dog"} @@ "b" :> {"User", "Cat"} @@ "c" :> {"User"}, Plain200)
CommonJs == [Calls EXCEPT !.files = [i \in DOMAIN @ |-> [@[i] EXCEPT !.format = "cjs",
                                        !.calls = [k \in DOMAIN @ |-> [@[k] EXCEPT !.text = IF @ \in Markers THEN "" ELSE @]]]]]
\* A check and a marker call that need the same function.
Twice == Case(<<UsersClass(<<Method("create", "Post", <<>>, <<Body(Ref("User"))>>, Void)>>)>>,
        <<[UsersFile(<<Fn("UsersController", "create", <<V>>)>>) EXCEPT
              !.imports = <<Import("tsgonest", {"assert"})>>, !.calls = <<Marker("assert", "User")>>]>>, All, Plain200)

MCPrograms == {Crud, Alike, Conditional, Versions, HeaderVersions, Several, Taken, Classes, OneDir, Pages,
               Events(TRUE), Events(FALSE), Decorated, Calls, CommonJs, Twice} \cup KindPrograms

\* @Query('n') n?: number
Optional == Case(<<UsersClass(<<Method("page", "Get", <<>>, <<[Query("n", Number) EXCEPT !.optional = TRUE]>>, Void)>>)>>,
        <<UsersFile(<<Fn("UsersController", "page", <<V>>)>>)>>, All, Plain200)
OptionalPrograms == {Optional}
PagePrograms == {Pages}

=============================================================================
