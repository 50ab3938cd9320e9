--------------------------- MODULE BuildPipeline ---------------------------
(***************************************************************************)
(* cmd/tsgonest/build.go and internal/buildcache: one build after another  *)
(* over the same output directory.                                         *)
(*                                                                         *)
(* What a build reads (the source files and the config) and what it leaves *)
(* on disk (JS, companions, OpenAPI document, SDK, .sdk-hash, .tsbuildinfo *)
(* and the post-processing cache) are contents that can be compared: an    *)
(* output is the record of what it was generated from.  Contents recur     *)
(* when an edit is undone, and hashes are the contents themselves.         *)
(*                                                                         *)
(* A build reads the config first, the sources once, and the config's hash *)
(* again after the emit; edits come at any moment.                         *)
(***************************************************************************)
EXTENDS Naturals, FiniteSets

CONSTANTS
    Files,        \* source files
    ContentsOf,   \* for each file, the contents it takes
    Erroneous,    \* contents with a type error
    Controllers,  \* contents that declare a controller
    Configs,      \* contents of the config file
    BadConfig,    \* a content of the config file that does not load
    Settings,     \* combinations of project settings and disturbances
    MaxBuilds,    \* bound on the builds
    MaxEdits,     \* bound on the edits
    Nil,          \* no such file
    Mixed,        \* a file or directory that was only partly written
    Plain         \* the config of JS emitted without rewriting

\* A setting says whether tsconfig.json is incremental, whether it has
\* noEmitOnError, whether .tsbuildinfo lies inside outDir, and which
\* disturbances happen: "clean" (--clean), "crash", "fail" (a post-processing
\* step fails), "save" (the cache cannot be saved), "midConfig" (the config is
\* edited while a build runs).
Disturbances == {"clean", "crash", "fail", "save", "midConfig"}

\* What the source files can hold, and what an output is generated from.
AllContents == UNION {ContentsOf[f] : f \in Files}
Sources == {s \in [Files -> AllContents] : \A f \in Files : s[f] \in ContentsOf[f]}
Stamps  == [src : Sources, conf : Configs]

ASSUME BuildAssumption ==
    /\ Files # {} /\ IsFiniteSet(Files)
    /\ BadConfig \notin Configs
    /\ \A s \in Settings : /\ s.incremental \in BOOLEAN
                           /\ s.noEmitOnError \in BOOLEAN
                           /\ s.infoInside \in BOOLEAN
                           /\ s.faults \subseteq Disturbances
    /\ MaxBuilds \in Nat /\ MaxEdits \in Nat
    /\ Nil # Mixed /\ Nil \notin Stamps /\ Mixed \notin Stamps
    /\ Nil \notin AllContents

VARIABLES
    setting,   \* the setting of this project
    src,       \* content of each source file
    conf,      \* content of the config file
    js,        \* emitted JS of each source file
    comp,      \* the companion files
    openapi,   \* the OpenAPI document
    sdk,       \* the generated SDK
    sdkHash,   \* .sdk-hash: the document the SDK was generated from
    info,      \* .tsbuildinfo: the content of each file when it was emitted
    cache,     \* the post-processing cache: the config hash it records
    pc,        \* where the running build is
    clean,     \* the running build was given --clean
    seen,      \* the sources the build read
    seenConf,  \* the config the build loaded
    hash,      \* the config hash the build computed
    toEmit,    \* files still to emit
    emitted,   \* the build emits at least one file
    code,      \* exit code
    builds, edits

inputVars  == <<src, conf, edits>>
outputVars == <<js, comp, openapi, sdk, sdkHash, info, cache>>
localVars  == <<clean, seen, seenConf, hash, toEmit, emitted, builds>>
vars == <<setting, inputVars, outputVars, localVars, pc, code>>

Stamp     == [src |-> seen, conf |-> seenConf]
HasErrors == \E f \in Files : seen[f] \in Erroneous
HasControllers == \E f \in Files : seen[f] \in Controllers
May(d)    == d \in setting.faults

BuildInit ==
    /\ setting \in Settings
    /\ src \in {s \in Sources : \A f \in Files : s[f] \notin Erroneous}
    /\ conf \in Configs
    /\ js = [f \in Files |-> Nil]
    /\ comp = Nil /\ openapi = Nil /\ sdk = Nil /\ sdkHash = Nil
    /\ info = [f \in Files |-> Nil]
    /\ cache = Nil
    /\ pc = "idle" /\ clean = FALSE
    /\ seen = src /\ seenConf = conf /\ hash = Nil
    /\ toEmit = {} /\ emitted = FALSE
    /\ code = 0
    /\ builds = 0 /\ edits = 0

-----------------------------------------------------------------------------
(* The environment. *)

EditSource(f) ==
    /\ edits < MaxEdits
    /\ \E c \in ContentsOf[f] \ {src[f]} : src' = [src EXCEPT ![f] = c]
    /\ edits' = edits + 1
    /\ UNCHANGED <<setting, conf, outputVars, localVars, pc, code>>

EditConfig ==
    /\ edits < MaxEdits
    /\ pc = "idle" \/ May("midConfig")
    /\ conf' \in (Configs \cup {BadConfig}) \ {conf}
    /\ edits' = edits + 1
    /\ UNCHANGED <<setting, src, outputVars, localVars, pc, code>>

-----------------------------------------------------------------------------
(* A build. *)

Begin ==
    /\ pc = "idle"
    /\ builds < MaxBuilds
    /\ builds' = builds + 1
    /\ clean' \in (IF May("clean") THEN BOOLEAN ELSE {FALSE})
    /\ pc' = "load"
    /\ UNCHANGED <<setting, inputVars, outputVars, seen, seenConf, hash, toEmit,
                   emitted, code>>

Exit(c) == pc' = "exited" /\ code' = c
Go(label) == pc' = label /\ UNCHANGED code

\* loadOrDiscoverConfig
LoadConfig ==
    /\ pc = "load"
    /\ IF conf = BadConfig THEN Exit(1) /\ UNCHANGED seenConf
                           ELSE Go("clean") /\ seenConf' = conf
    /\ UNCHANGED <<setting, inputVars, outputVars, clean, seen, hash, toEmit,
                   emitted, builds>>

\* smartCleanDir and buildcache.Delete: everything in outDir goes but a
\* .tsbuildinfo that is an entry of outDir itself next to the tsconfig; an
\* error of the removal is only a warning.
CleanOutDir ==
    /\ pc = "clean"
    /\ IF clean
         THEN /\ \E kept \in SUBSET Files :
                    /\ kept # {} => May("fail")
                    /\ js' = [f \in Files |-> IF f \in kept THEN js[f] ELSE Nil]
              /\ comp' = Nil /\ openapi' = Nil /\ cache' = Nil
              /\ info' = IF setting.infoInside THEN [f \in Files |-> Nil] ELSE info
         ELSE UNCHANGED <<js, comp, openapi, cache, info>>
    /\ Go("read")
    /\ UNCHANGED <<setting, inputVars, sdk, sdkHash, localVars>>

\* The files the emit will write: all of them, or with an incremental program
\* those whose content differs from what was last emitted.
FilesToEmit ==
    IF setting.incremental THEN {f \in Files : info[f] # src[f]} ELSE Files

\* CreateProgramFromConfig and the diagnostics: the sources are read once.
ReadSources ==
    /\ pc = "read"
    /\ seen' = src
    /\ toEmit' = FilesToEmit
    /\ emitted' = (FilesToEmit # {})
    /\ Go("analyse")
    /\ UNCHANGED <<setting, inputVars, outputVars, clean, seenConf, hash, builds>>

\* Pre-emit analysis, left out when there are errors; companions are generated
\* in memory and may fail.
Analyse ==
    /\ pc = "analyse"
    /\ \/ Go(IF HasErrors /\ setting.noEmitOnError THEN "skip" ELSE "emit")
       \/ May("fail") /\ ~HasErrors /\ Exit(1)
    /\ UNCHANGED <<setting, inputVars, outputVars, localVars>>

\* noEmitOnError: nothing is emitted and the files stay pending.
SkipEmit ==
    /\ pc = "skip"
    /\ info' = IF setting.incremental
                 THEN [f \in Files |-> IF f \in toEmit THEN Nil ELSE info[f]]
                 ELSE info
    /\ Exit(2)
    /\ UNCHANGED <<setting, inputVars, js, comp, openapi, sdk, sdkHash, cache, localVars>>

\* WriteFile of one file, in any order; without the analysis it rewrites nothing.
EmitFile(f) ==
    /\ pc = "emit"
    /\ f \in toEmit
    /\ js' = [js EXCEPT ![f] = [text |-> seen[f],
                                conf |-> IF HasErrors THEN Plain ELSE seenConf]]
    /\ toEmit' = toEmit \ {f}
    /\ UNCHANGED <<setting, inputVars, comp, openapi, sdk, sdkHash, info, cache,
                   clean, seen, seenConf, hash, emitted, builds, pc, code>>

\* Mutant: a build with errors goes on after the emit.
EmitDoneIgnoringErrors ==
    /\ pc = "emit"
    /\ toEmit = {}
    /\ info' = IF setting.incremental THEN seen ELSE info
    /\ Go("companions")
    /\ UNCHANGED <<setting, inputVars, js, comp, openapi, sdk, sdkHash, cache, localVars>>

\* The incremental program writes .tsbuildinfo last; errors end the build here.
EmitDone ==
    /\ pc = "emit"
    /\ toEmit = {}
    /\ info' = IF setting.incremental THEN seen ELSE info
    /\ IF HasErrors THEN Exit(1) ELSE Go("companions")
    /\ UNCHANGED <<setting, inputVars, js, comp, openapi, sdk, sdkHash, cache, localVars>>

\* Mutant: companions are written only by a build that emitted something.
CompanionsOnEmit ==
    /\ pc = "companions"
    /\ comp' = IF emitted THEN Stamp ELSE comp
    /\ Go("check")
    /\ UNCHANGED <<setting, inputVars, js, openapi, sdk, sdkHash, info, cache, localVars>>

\* Companion files are written by every build without errors.
WriteCompanions ==
    /\ pc = "companions"
    /\ \/ comp' = Stamp /\ Go("check")
       \/ May("fail") /\ comp' = Mixed /\ Exit(1)
    /\ UNCHANGED <<setting, inputVars, js, openapi, sdk, sdkHash, info, cache, localVars>>

\* Mutant: IsValid does not compare the config hash.
IsValidAnyConfig(h) ==
    /\ cache # Nil
    /\ openapi # Nil

\* Cache.IsValid: recorded for this config hash, and the outputs exist.
IsValid(h) ==
    /\ cache # Nil
    /\ cache = h
    /\ openapi # Nil

\* Mutant: the emitted files are not looked at.
CheckCacheOnly ==
    /\ pc = "check"
    /\ hash' = conf
    /\ IF ~clean /\ IsValid(conf) THEN Exit(0) ELSE Go("openapi")
    /\ UNCHANGED <<setting, inputVars, outputVars, clean, seen, seenConf, toEmit,
                   emitted, builds>>

\* The config file is hashed as it is now.
CheckCache ==
    /\ pc = "check"
    /\ hash' = conf
    /\ IF ~emitted /\ ~clean /\ IsValid(conf) THEN Exit(0) ELSE Go("openapi")
    /\ UNCHANGED <<setting, inputVars, outputVars, clean, seen, seenConf, toEmit,
                   emitted, builds>>

\* generateOpenAPIFromControllers, when there is a controller
GenerateOpenApi ==
    /\ pc = "openapi"
    /\ IF HasControllers
         THEN \/ openapi' = Stamp /\ Go("sdk")
              \/ May("fail") /\ openapi' \in {openapi, Mixed} /\ Exit(1)
         ELSE UNCHANGED openapi /\ Go("sdk")
    /\ UNCHANGED <<setting, inputVars, js, comp, sdk, sdkHash, info, cache, localVars>>

\* The SDK goroutine: skipped when .sdk-hash names this document, an error when
\* there is no document to read.
GenerateSdk ==
    /\ pc = "sdk"
    /\ \/ /\ openapi # Nil /\ sdkHash = openapi
          /\ UNCHANGED sdk /\ Go("save")
       \/ /\ openapi \notin {Nil, Mixed} /\ sdkHash # openapi
          /\ \/ sdk' = openapi /\ Go("sdkHash")
             \/ May("fail") /\ sdk' = Mixed /\ Exit(1)
       \/ /\ openapi \in {Nil, Mixed}
          /\ UNCHANGED sdk /\ Exit(1)
    /\ UNCHANGED <<setting, inputVars, js, comp, openapi, sdkHash, info, cache, localVars>>

\* The hash is written after the SDK; an error is ignored.
WriteSdkHash ==
    /\ pc = "sdkHash"
    /\ \/ sdkHash' = openapi
       \/ May("fail") /\ UNCHANGED sdkHash
    /\ Go("save")
    /\ UNCHANGED <<setting, inputVars, js, comp, openapi, sdk, info, cache, localVars>>

\* buildcache.Save: a temporary file renamed; an error is only a warning.
SaveCache ==
    /\ pc = "save"
    /\ \/ cache' = hash
       \/ May("save") /\ UNCHANGED cache
    /\ Exit(0)
    /\ UNCHANGED <<setting, inputVars, js, comp, openapi, sdk, sdkHash, info, localVars>>

\* The next build may begin.
Return ==
    /\ pc = "exited"
    /\ Go("idle")
    /\ UNCHANGED <<setting, inputVars, outputVars, localVars>>

\* The process dies (Ctrl-C, kill, panic); what it was writing is left partial.
Crash ==
    /\ May("crash")
    /\ pc \notin {"idle", "exited"}
    /\ js' \in {js} \cup (IF pc = "emit" THEN {[js EXCEPT ![f] = Mixed] : f \in toEmit} ELSE {})
    /\ comp' \in {comp} \cup (IF pc = "companions" THEN {Mixed} ELSE {})
    /\ openapi' \in {openapi} \cup (IF pc = "openapi" THEN {Mixed} ELSE {})
    /\ sdk' \in {sdk} \cup (IF pc = "sdk" THEN {Mixed} ELSE {})
    /\ Go("idle")
    /\ UNCHANGED <<setting, inputVars, sdkHash, info, cache, localVars>>

BuildStep ==
    \/ Begin \/ LoadConfig \/ CleanOutDir \/ ReadSources \/ Analyse \/ SkipEmit
    \/ (\E f \in Files : EmitFile(f)) \/ EmitDone \/ WriteCompanions \/ CheckCache
    \/ GenerateOpenApi \/ GenerateSdk \/ WriteSdkHash \/ SaveCache \/ Return

BuildNext == BuildStep \/ Crash \/ EditConfig \/ \E f \in Files : EditSource(f)

BuildSpec == BuildInit /\ [][BuildNext]_vars

-----------------------------------------------------------------------------
(* What holds at each point of a build. *)

Succeeded == pc = "exited" /\ code = 0

AfterCheck      == {"openapi", "sdk", "sdkHash", "save"}
AfterCompanions == {"check"} \cup AfterCheck
AfterEmit       == {"companions"} \cup AfterCompanions
Between         == {"idle", "load", "exited"}
Places          == Between \cup {"clean", "read", "analyse", "skip", "emit"} \cup AfterEmit

Output      == {Nil, Mixed} \cup Stamps
JsOutput    == {Nil, Mixed} \cup [text : AllContents, conf : Configs \cup {Plain}]

BuildTypeOK ==
    /\ setting \in Settings
    /\ src \in Sources /\ seen \in Sources
    /\ conf \in Configs \cup {BadConfig}
    /\ seenConf \in Configs
    /\ js \in [Files -> JsOutput]
    /\ comp \in Output /\ openapi \in Output /\ sdk \in Output /\ sdkHash \in Output
    /\ info \in [Files -> AllContents \cup {Nil}]
    /\ cache \in Configs \cup {BadConfig, Nil}
    /\ hash \in Configs \cup {BadConfig, Nil}
    /\ clean \in BOOLEAN /\ emitted \in BOOLEAN
    /\ toEmit \subseteq Files
    /\ pc \in Places
    /\ code \in 0 .. 2
    /\ builds \in 0 .. MaxBuilds /\ edits \in 0 .. MaxEdits

JsFresh(f)   == js[f] = [text |-> seen[f], conf |-> seenConf]
Text(f, c)   == \E k \in Configs \cup {Plain} : js[f] = [text |-> c, conf |-> k]
OpenApiFresh == HasControllers => openapi = Stamp

\* What every build has written when it gets to a point.
OutputInv ==
    /\ pc \in AfterEmit => ~HasErrors
    /\ pc \in AfterCompanions => comp = Stamp
    /\ pc \in {"sdk", "sdkHash", "save"} => OpenApiFresh
    /\ Succeeded => comp = Stamp /\ (emitted => OpenApiFresh)

\* What a build that is not incremental has emitted.
FullInv ==
    ~setting.incremental =>
        /\ pc \in {"analyse", "skip", "emit"} \cup AfterEmit => emitted
        /\ pc = "analyse" => toEmit = Files
        /\ pc = "emit" /\ ~HasErrors => \A f \in Files \ toEmit : JsFresh(f)
        /\ pc \in AfterEmit => \A f \in Files : JsFresh(f)
        /\ Succeeded => emitted /\ \A f \in Files : JsFresh(f)

\* The conjuncts of the invariant of undisturbed incremental builds.
Steady == setting.incremental /\ setting.faults = {}

\* Nothing is cleaned, and the config does not change under a build.
Undisturbed ==
    /\ ~clean
    /\ pc \notin Between => conf = seenConf
    /\ pc \in AfterCheck => hash = seenConf

\* .tsbuildinfo tells the truth about the JS, except for the files that the
\* emit under way has already written.
InfoTrue ==
    /\ \A f \in Files : info[f] # Nil /\ (pc = "emit" => f \in toEmit) => Text(f, info[f])
    /\ pc = "analyse" => \A f \in Files : f \in toEmit <=> info[f] # seen[f]
    /\ pc = "emit" => \A f \in Files \ toEmit : Text(f, seen[f])
    /\ pc \in {"analyse", "emit"} /\ ~emitted => info = seen
    /\ pc \in AfterEmit => info = seen
    /\ Succeeded => info = seen

\* The SDK follows the OpenAPI document.
SdkFollows ==
    /\ openapi # Mixed
    /\ pc \in {"sdkHash", "save"} \/ cache # Nil => openapi # Nil
    /\ pc # "sdkHash" /\ sdkHash # Nil => sdkHash = sdk
    /\ pc \in {"sdkHash", "save"} => sdk = openapi
    /\ pc # "sdk" /\ cache # Nil => sdk = openapi
    /\ Succeeded => sdk = openapi

\* When every file was last emitted without error, the cached config and the
\* contents in .tsbuildinfo are what the OpenAPI document was generated from.
Settled ==
    /\ pc \notin AfterEmit \/ (pc \in {"companions", "check"} /\ ~emitted)
    /\ \A f \in Files : info[f] # Nil /\ info[f] \notin Erroneous
    /\ \E f \in Files : info[f] \in Controllers
    /\ cache # Nil /\ openapi # Nil

CacheTrue == Settled => openapi = [src |-> info, conf |-> cache]

IncrementalInv ==
    Steady => /\ Undisturbed
              /\ InfoTrue
              /\ SdkFollows
              /\ CacheTrue
              /\ Succeeded => OpenApiFresh

\* The inductive invariant of the pipeline.
BuildInv == BuildTypeOK /\ OutputInv /\ FullInv /\ IncrementalInv

-----------------------------------------------------------------------------
(* Properties. *)

\* A build without "incremental" that exits 0 leaves JS, companions and OpenAPI
\* document generated from the sources and the config it read, whatever earlier
\* builds, crashes, failures and edits left behind (build.go:443-593).
FullBuildFresh ==
    Succeeded /\ ~setting.incremental =>
        (\A f \in Files : JsFresh(f)) /\ comp = Stamp /\ OpenApiFresh

\* Companions are written before the cache is looked at, so a build that exits 0
\* leaves them fresh even when it skips the rest (build.go:524-557).
CompanionsFresh == Succeeded => comp = Stamp

\* A build that emitted a file and exits 0 has regenerated the OpenAPI document:
\* a cache that is still valid is not trusted then (build.go:548-549).
EmittedOpenApiFresh == Succeeded /\ emitted => OpenApiFresh

\* Undisturbed incremental builds (edits of the sources at any time, of the
\* config between builds, builds with errors) that exit 0 leave the text of every
\* JS file, the OpenAPI document and the SDK up to date, also when the cache made
\* them skip the regeneration (build.go:542-557, buildcache/cache.go:114-146).
IncrementalFresh ==
    Succeeded /\ setting.incremental /\ setting.faults = {} =>
        (\A f \in Files : Text(f, seen[f])) /\ OpenApiFresh /\ sdk = openapi

\* e2e/incremental.test.ts:224, "--clean flag should force full rebuild": a
\* build with --clean that exits 0 leaves the JS of every file.
CleanRebuilds ==
    Succeeded /\ clean /\ setting.faults \subseteq {"clean"} => \A f \in Files : JsFresh(f)

\* cache.go:3-6: post-processing is skipped only when nothing changed since it
\* last succeeded; a failed post-processing step is made up for by the next build.
FailureMadeUp == Succeeded /\ setting.faults \subseteq {"fail"} => OpenApiFresh
=============================================================================
