----------------------------- MODULE ApiOutline ------------------------------
(***************************************************************************)
(* From the controllers of a program to the methods of its client, without *)
(* the types of parameters and answers: the names that a written file uses *)
(* and imports (internal/rewrite), the operations of the document and the  *)
(* handlers they belong to (internal/openapi), the methods of the client   *)
(* and the directories they are in (internal/sdkgen).  Files are emitted   *)
(* in any order, and Go's maps are visited in any order.  ApiPipeline adds *)
(* the types.                                                              *)
(***************************************************************************)
EXTENDS Rewriter

CONSTANTS Programs,         \* [classes, files, typesByFile, opts, leftover]
          VersionSegments,  \* the segments of paths that are the version prefix and digits
          DirNames          \* name of a controller -> its directory (controllerDirName)

VARIABLES program,       \* the program that is built
          phase,         \* "map", "emit", "document", "parse", "written"
          companions,    \* CompanionMap
          emitted,       \* name of a file -> the file as written
          todo,          \* [route, version] to be documented
          slots,         \* the document: [path, verb] -> the handler, [class, method]
          methods,       \* the client: slot -> [version, controller, name, path]
          files          \* [dirs, of]: directories on disk, and the slots each serves
outline == <<program, phase, companions, emitted, todo, slots, methods, files>>

(***************************************************************************)
(* What a program is.  The options are [prefix, versioning, versionPrefix, *)
(* default].  The compiler's files have no edits yet, and decorators of    *)
(* event streams take one path.                                            *)
(***************************************************************************)
Segment == [var : BOOLEAN, name : STRING]
IsType(t) == t.kind = "union" => IsSequence(t.members)
ASSUME RegistryAssumption == \A n \in DOMAIN Registry : IsType(Registry[n])

IsMethod(mt) ==
    /\ mt.paths \in Seq(Seq(Segment)) /\ IsSequence(mt.params) /\ IsSequence(mt.versions)
    /\ mt.verb \in {""} \cup DOMAIN Verbs
    /\ mt.verb \in EventVerbs => Len(mt.paths) < 2
    /\ IsType(ReturnTypeOf(mt))
IsClass(cls) ==
    /\ cls.paths \in Seq(Seq(Segment)) /\ IsSequence(cls.methods)
    /\ \A mt \in ToSet(cls.methods) : IsMethod(mt)
IsEmittedFunction(f) ==
    /\ f = [Function(f.class, f.name, f.async, f.returns) EXCEPT !.simple = f.simple]
    /\ IsSequence(f.returns) /\ \A r \in ToSet(f.returns) : r = Return(r.top, r.op)
IsEmittedFile(file) ==
    /\ file = [File(file.name, file.format, file.imports, file.calls, file.functions) EXCEPT !.reflects = file.reflects]
    /\ IsSequence(file.imports) /\ \A x \in ToSet(file.imports) : x = Import(x.from, x.names)
    /\ IsSequence(file.calls) /\ \A c \in ToSet(file.calls) :
          c = Call(c.text, c.marker, c.type) /\ c.marker \in {""} \cup Markers
    /\ IsSequence(file.functions) /\ \A f \in ToSet(file.functions) : IsEmittedFunction(f)
IsProgram(p) ==
    /\ IsSequence(p.classes) /\ \A cls \in ToSet(p.classes) : IsClass(cls)
    /\ IsSequence(p.files) /\ \A file \in ToSet(p.files) : IsEmittedFile(file)
    /\ \A i, j \in DOMAIN p.files : p.files[i].name = p.files[j].name => i = j
    /\ IsFiniteSet(UNION {p.typesByFile[f] : f \in DOMAIN p.typesByFile})
    /\ p.opts.prefix \in Seq(Segment)
    /\ p.leftover \subseteq Seq(STRING)
ASSUME ProgramsAssumption == \A p \in Programs : IsProgram(p)

\* No marker is the beginning of another, so a companion's function tells its
\* marker and its type; the names of the runtime begin in another way.
TypeNames == UNION {UNION {p.typesByFile[f] : f \in DOMAIN p.typesByFile} : p \in Programs}
ASSUME CompanionFuncAssumption ==
    /\ "" \notin TypeNames
    /\ \A a, b \in Markers, s, t \in TypeNames : CompanionFunc(a, s) = CompanionFunc(b, t) => a = b /\ s = t
    /\ \A a \in Markers, t \in TypeNames : CompanionFunc(a, t) \notin RuntimeNames

Controllers == AnalyzeProgram(program.classes)
Sources     == ToSet(program.files)

Orders(S) == {s \in [1 .. Cardinality(S) -> S] : IsInjective(s)}

(***************************************************************************)
(* Paths of the document.                                                  *)
(***************************************************************************)
VersionsOf(r) == IF r.versions = <<>> THEN <<r.version>> ELSE r.versions
VersionOr(version, opts) == IF version = "" THEN opts.default ELSE version
OpenApiPath(path, version, opts) ==
    LET v == VersionOr(version, opts)
    IN  opts.prefix \o (IF opts.versioning = "URI" /\ v # "" THEN <<Lit(opts.versionPrefix \o v)>> ELSE <<>>) \o path
SlotOf(x, opts) == [path |-> OpenApiPath(x.route.path, x.version, opts), verb |-> x.route.verb]

\* The controllers that are not hidden, their routes, the versions of each.
Planned(controllers) ==
    FlattenSeq([c \in DOMAIN controllers |->
        IF controllers[c].hidden THEN <<>>
        ELSE FlattenSeq([r \in DOMAIN controllers[c].routes |->
                LET route == controllers[c].routes[r]
                IN  [v \in DOMAIN VersionsOf(route) |-> [route |-> route, version |-> VersionsOf(route)[v]]]])])

(***************************************************************************)
(* Methods and directories of the client.                                  *)
(***************************************************************************)
StripGlobalPrefix(path, prefix) ==
    LET rest == SubSeq(path, Len(prefix) + 1, Len(path))
    IN  IF prefix = <<>> \/ ~IsPrefix(prefix, path) THEN path ELSE IF rest = <<>> THEN <<Root>> ELSE rest
ExtractVersion(path) == IF ~path[1].var /\ path[1].name \in VersionSegments THEN path[1].name ELSE ""
MethodOf(slot, handler, prefix) ==
    LET path == StripGlobalPrefix(slot.path, prefix)
    IN  [version |-> ExtractVersion(path), controller |-> handler.class, name |-> handler.method, path |-> path]

\* A directory is <<name>> or <<version, name>>.
ControllerDir(version, controller) ==
    IF version = "" THEN <<DirNames[controller]>> ELSE <<version, DirNames[controller]>>
Groups(all) == {<<all[s].version, all[s].controller>> : s \in DOMAIN all}
Group(all, g) == {s \in DOMAIN all : <<all[s].version, all[s].controller>> = g}

\* Mutant: a version's directory is kept with everything in it.
MutantCleanStaleControllerDirs(dirs, active) == {d \in dirs : \E a \in active : a[1] = d[1]}
\* A directory at the top stays, with what is in it, when it is a controller's;
\* one that holds a controller's is a version's and loses the others.
CleanStaleControllerDirs(dirs, active) ==
    {d \in dirs : \/ SubSeq(d, 1, 1) \in active
                  \/ d \in active
                  \/ Len(d) = 1 /\ \E a \in active : Len(a) = 2 /\ a[1] = d[1]}

(***************************************************************************)
(* Steps.                                                                  *)
(***************************************************************************)
OutlineInit ==
    /\ program \in Programs
    /\ phase = "map"
    /\ companions = <<>> /\ emitted = <<>> /\ todo = <<>> /\ slots = <<>> /\ methods = <<>>
    /\ files = [dirs |-> program.leftover, of |-> <<>>]

\* The map is built before anything is emitted.
BuildCompanionMap ==
    /\ phase = "map"
    /\ \E order \in Orders(DOMAIN program.typesByFile) : companions' = CompanionMap(program.typesByFile, order)
    /\ phase' = "emit"
    /\ UNCHANGED <<program, emitted, todo, slots, methods, files>>

\* The compiler hands the files over one by one.
EmitFile(file) ==
    /\ phase = "emit" /\ file.name \notin DOMAIN emitted
    /\ emitted' = Put(emitted, file.name, WriteFile(file, Controllers, companions))
    /\ UNCHANGED <<program, phase, companions, todo, slots, methods, files>>

StartDocument ==
    /\ phase = "emit" /\ DOMAIN emitted = {f.name : f \in Sources}
    /\ phase' = "document" /\ todo' = Planned(Controllers)
    /\ UNCHANGED <<program, companions, emitted, slots, methods, files>>

\* One version of a route is put into its slot: a later one replaces it.
DocumentRoute ==
    /\ phase = "document" /\ todo # <<>>
    /\ slots' = Put(slots, SlotOf(Head(todo), program.opts),
                    [class |-> Head(todo).route.class, method |-> Head(todo).route.method])
    /\ todo' = Tail(todo)
    /\ UNCHANGED <<program, phase, companions, emitted, methods, files>>

EndDocument ==
    /\ phase = "document" /\ todo = <<>>
    /\ phase' = "parse"
    /\ UNCHANGED <<program, companions, emitted, todo, slots, methods, files>>

ParseSlot(slot) ==
    /\ phase = "parse" /\ slot \notin DOMAIN methods
    /\ methods' = Put(methods, slot, MethodOf(slot, slots[slot], program.opts.prefix))
    /\ UNCHANGED <<program, phase, companions, emitted, todo, slots, files>>

\* Generate (sdkgen): stale directories are removed and files written; of two
\* controllers with one directory the later is kept.
WriteMethods ==
    /\ phase = "parse" /\ DOMAIN methods = DOMAIN slots
    /\ LET active == {ControllerDir(g[1], g[2]) : g \in Groups(methods)}
       IN  \E last \in [active -> Groups(methods)] :
             /\ \A d \in active : ControllerDir(last[d][1], last[d][2]) = d
             /\ files' = [dirs |-> CleanStaleControllerDirs(files.dirs, active)
                                   \cup active \cup {SubSeq(d, 1, 1) : d \in active},
                          of   |-> [d \in active |-> Group(methods, last[d])]]
    /\ phase' = "written"
    /\ UNCHANGED <<program, companions, emitted, todo, slots, methods>>

OutlineNext ==
    \/ BuildCompanionMap \/ StartDocument \/ DocumentRoute \/ EndDocument \/ WriteMethods
    \/ \E file \in Sources : EmitFile(file)
    \/ \E slot \in DOMAIN slots : ParseSlot(slot)
OutlineSpec == OutlineInit /\ [][OutlineNext]_outline

-----------------------------------------------------------------------------
(* The names of a written file.                                            *)

Bindings(file, name) == {i \in DOMAIN file.imports : name \in file.imports[i].names}
BoundOnce(file, name) == Cardinality(Bindings(file, name)) = 1

NamesOfCalls(file) == {c.text : c \in {d \in ToSet(file.calls) : d.marker # ""}}
NameOfLine(l) == IF l.do = "assert" THEN CompanionFunc("assert", l.type) ELSE ValidationError
LinesOf(file) == UNION {ToSet(f.lines) : f \in ToSet(file.functions)}
WrappersOf(file) == UNION {UNION {ToSet(r.wraps) : r \in ToSet(f.returns)} : f \in ToSet(file.functions)}
EventsOf(file) == UNION {ToSet(x.entries) : x \in ToSet(file.metadata)}
NamesOfHandlers(file) ==
    {NameOfLine(l) : l \in LinesOf(file)}
    \cup {CompanionFunc(w.op, w.name) : w \in {x \in WrappersOf(file) : x.op # "primitive"}}
    \cup {CompanionFunc(k, e.type) : k \in {"assert", "stringify"}, e \in EventsOf(file)}
    \cup UNION {{d.via, d.name} : d \in ToSet(file.decorators)}

\* A handler's check and a marker call that need the same function import it
\* twice, and the file cannot be loaded.
ImportsApart(source) ==
    MarkerPairs(source.calls)
    \cap HandlerPairs(RewrittenRoutes(ControllersOf(source.name, Controllers)), companions) = {}

\* Marker calls are matched by their number in the text: other calls of the
\* name, calls without a named type, other names for a marker, other imports
\* of its module or of a generated name, and CommonJS (where the call is no
\* `name(`) lead astray.
GeneratedNames == RuntimeNames \cup {CompanionFunc(k, t) : k \in Markers, t \in DOMAIN companions}
CallsClear(file) ==
    /\ file.format = "esm"
    /\ \A c \in ToSet(file.calls) : c.text \in Markers \/ c.marker # "" =>
           c.text = c.marker /\ c.type \in DOMAIN companions
    /\ \A x \in ToSet(file.imports) :
           /\ x.from = "tsgonest" => x.names \subseteq {c.text : c \in ToSet(file.calls)}
           /\ x.names \cap GeneratedNames = {}

\* A written marker call calls the function for its own type, the other calls
\* are as they were, every name that the file uses is bound by one import
\* (ImportsApart), and a companion's function comes from the companion of its type.
\* Left out is Common, which nothing binds in these files: one whose class gets an
\* interceptor has all its other names but cannot be loaded as an ES module.
CallsBound ==
    \A source \in Sources : (source.name \in DOMAIN emitted /\ CallsClear(source)) =>
        LET file == emitted[source.name]
        IN  /\ \A i \in DOMAIN source.calls :
                 LET c == source.calls[i]
                 IN  IF c.marker = "" THEN file.calls[i] = c
                     ELSE file.calls[i].text = CompanionFunc(c.marker, c.type)
            /\ \A n \in (NamesOfCalls(file) \cup NamesOfHandlers(file)) \ {Common} :
                 /\ Bindings(file, n) # {}
                 /\ ImportsApart(source) => BoundOnce(file, n)
            /\ \A i \in DOMAIN file.imports : \A t \in DOMAIN companions :
                 (\E k \in Markers : CompanionFunc(k, t) \in file.imports[i].names) => file.imports[i].from = companions[t]

-----------------------------------------------------------------------------
(* What the source asks for: each path of the class with each of the       *)
(* method, each version, each verb.                                        *)

PathsOf(x) == IF x.paths = <<>> THEN {<<>>} ELSE ToSet(x.paths)
Asked(cls, mt) ==
    LET own      == IF mt.versions = <<>> THEN {cls.version} ELSE ToSet(mt.versions)
        versions == {IF v = "" THEN program.opts.default ELSE v : v \in own}
        segment(v) == IF program.opts.versioning = "URI" /\ v # ""
                      THEN <<Lit(program.opts.versionPrefix \o v)>> ELSE <<>>
        verbs    == IF mt.verb = "All" THEN ToSet(AllVerbs) ELSE {Verbs[mt.verb]}
    IN  {[path |-> program.opts.prefix \o segment(v) \o CombinePaths(p, q), verb |-> verb] :
            p \in PathsOf(cls), q \in PathsOf(mt), v \in versions, verb \in verbs}
\* <<class, method>>
Visible == UNION {{<<cls, mt>> : mt \in {m \in ToSet(cls.methods) : IsRoute(cls, m)}}
                  : cls \in {c \in ToSet(program.classes) : ~c.hidden}}
DirOf(mt) == ControllerDir(mt.version, mt.controller)
SharesDir(mt) == \E s \in DOMAIN methods : DirOf(methods[s]) = DirOf(mt) /\ methods[s].controller # mt.controller

\* Every visible route has an operation under its full path, of its own
\* handler when no other route takes the slot; each operation has one method
\* in the file of its controller and version, with the path that the client
\* must add to the prefix; and no directory of an earlier document is left
\* (but inside a directory that is a controller's).
RoutesReachable ==
    phase = "written" =>
        /\ DOMAIN slots = UNION {Asked(r[1], r[2]) : r \in Visible}
        /\ \A r \in Visible : \A slot \in Asked(r[1], r[2]) :
              (\A other \in Visible \ {r} : slot \notin Asked(other[1], other[2])) =>
                  slots[slot] = [class |-> r[1].name, method |-> r[2].name]
        /\ DOMAIN methods = DOMAIN slots
        /\ \A slot \in DOMAIN slots :
              LET mt == methods[slot]
              IN  /\ mt.name = slots[slot].method /\ mt.controller = slots[slot].class
                  /\ slot.path = program.opts.prefix \o mt.path
                  /\ ~SharesDir(mt) => DirOf(mt) \in DOMAIN files.of /\ slot \in files.of[DirOf(mt)]
        /\ LET used == DOMAIN files.of \cup {SubSeq(d, 1, 1) : d \in DOMAIN files.of}
           IN  used \subseteq files.dirs /\ \A d \in files.dirs \ used : SubSeq(d, 1, 1) \in DOMAIN files.of

=============================================================================
