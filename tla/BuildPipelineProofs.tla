------------------------- MODULE BuildPipelineProofs -------------------------
(***************************************************************************)
(* Proofs about BuildPipeline, for every set of files, contents, configs   *)
(* and settings and any number of builds and edits: BuildInv is inductive, *)
(* and what a build that exits 0 leaves behind follows from it.            *)
(*                                                                         *)
(* One lemma per conjunct of BuildInv says that a step preserves it, with  *)
(* a step of the proof per action.                                         *)
(***************************************************************************)
EXTENDS BuildPipeline, TLAPS

LEMMA InitInv == BuildInit => BuildInv
  <1> SUFFICES ASSUME BuildInit PROVE BuildInv
    OBVIOUS
  <1> USE BuildAssumption DEF BuildInit, Between, AfterEmit, AfterCompanions, AfterCheck
  <1>1. BuildTypeOK
    <2>1. /\ src \in Sources /\ info \in [Files -> AllContents \cup {Nil}]
          /\ js \in [Files -> JsOutput]
      BY DEF JsOutput
    <2>2. builds \in 0 .. MaxBuilds /\ edits \in 0 .. MaxEdits /\ code \in 0 .. 2
      OBVIOUS
    <2> QED
      BY <2>1, <2>2 DEF BuildTypeOK, Places, Output
  <1>2. OutputInv /\ FullInv
    BY DEF OutputInv, FullInv, Succeeded, Stamp
  <1>3. IncrementalInv
    BY DEF IncrementalInv, Undisturbed, InfoTrue, SdkFollows, CacheTrue, Settled, Succeeded
  <1> QED
    BY <1>1, <1>2, <1>3 DEF BuildInv

\* Types.
LEMMA TypeStep ==
    ASSUME BuildTypeOK, [BuildNext]_vars
    PROVE  BuildTypeOK'
  <1> USE BuildAssumption
       DEF BuildTypeOK, Places, Between, AfterEmit, AfterCompanions, AfterCheck,
           Output, JsOutput, Stamps, inputVars, outputVars, localVars, Go, Exit, May
  <1>1. CASE Begin
    <2>1. clean' \in BOOLEAN
      BY <1>1 DEF Begin
    <2>2. builds' \in 0 .. MaxBuilds
      BY <1>1 DEF Begin
    <2> QED
      BY <1>1, <2>1, <2>2 DEF Begin
  <1>2. CASE LoadConfig
    BY <1>2 DEF LoadConfig
  <1>3. CASE CleanOutDir
    BY <1>3 DEF CleanOutDir
  <1>4. CASE ReadSources
    BY <1>4 DEF ReadSources, FilesToEmit
  <1>5. CASE Analyse
    BY <1>5 DEF Analyse, HasErrors
  <1>6. CASE SkipEmit
    BY <1>6 DEF SkipEmit
  <1>7. ASSUME NEW f \in Files, EmitFile(f) PROVE BuildTypeOK'
    <2>1. seen[f] \in AllContents
      BY DEF Sources
    <2>2. js' \in [Files -> JsOutput]
      BY <1>7, <2>1 DEF EmitFile
    <2> QED
      BY <1>7, <2>2 DEF EmitFile
  <1>8. CASE EmitDone
    <2>1. info' \in [Files -> AllContents \cup {Nil}]
      BY <1>8 DEF EmitDone, Sources
    <2> QED
      BY <1>8, <2>1 DEF EmitDone
  <1>9. CASE WriteCompanions
    BY <1>9 DEF WriteCompanions, Stamp
  <1>10. CASE CheckCache
    BY <1>10 DEF CheckCache, IsValid
  <1>11. CASE GenerateOpenApi
    BY <1>11 DEF GenerateOpenApi, HasControllers, Stamp
  <1>12. CASE GenerateSdk
    BY <1>12 DEF GenerateSdk
  <1>13. CASE WriteSdkHash
    BY <1>13 DEF WriteSdkHash
  <1>14. CASE SaveCache
    BY <1>14 DEF SaveCache
  <1>15. CASE Return
    BY <1>15 DEF Return
  <1>16. CASE Crash
    BY <1>16 DEF Crash
  <1>17. CASE EditConfig
    BY <1>17 DEF EditConfig
  <1>18. ASSUME NEW f \in Files, EditSource(f) PROVE BuildTypeOK'
    <2>1. PICK c \in ContentsOf[f] : src' = [src EXCEPT ![f] = c]
      BY <1>18 DEF EditSource
    <2>2. c \in AllContents
      BY DEF AllContents
    <2>3. src' \in Sources
      BY <2>1, <2>2 DEF Sources
    <2>4. edits' \in 0 .. MaxEdits
      BY <1>18 DEF EditSource
    <2> QED
      BY <1>18, <2>3, <2>4 DEF EditSource
  <1>19. CASE UNCHANGED vars
    BY <1>19 DEF vars
  <1> QED
    BY <1>1, <1>2, <1>3, <1>4, <1>5, <1>6, <1>7, <1>8, <1>9, <1>10,
       <1>11, <1>12, <1>13, <1>14, <1>15, <1>16, <1>17, <1>18, <1>19 DEF BuildNext, BuildStep

\* The outputs every build without errors has written so far.
LEMMA OutputStep ==
    ASSUME BuildTypeOK, OutputInv, [BuildNext]_vars
    PROVE  OutputInv'
  <1> USE DEF OutputInv, AfterEmit, AfterCompanions, AfterCheck, HasErrors, Stamp,
           OpenApiFresh, HasControllers, Succeeded, inputVars, outputVars, localVars, Go, Exit, May
  <1>1. CASE Begin
    BY <1>1 DEF Begin
  <1>2. CASE LoadConfig
    BY <1>2 DEF LoadConfig
  <1>3. CASE CleanOutDir
    BY <1>3 DEF CleanOutDir
  <1>4. CASE ReadSources
    BY <1>4 DEF ReadSources, FilesToEmit
  <1>5. CASE Analyse
    BY <1>5 DEF Analyse
  <1>6. CASE SkipEmit
    BY <1>6 DEF SkipEmit
  <1>7. ASSUME NEW f \in Files, EmitFile(f) PROVE OutputInv'
    BY <1>7 DEF EmitFile
  <1>8. CASE EmitDone
    BY <1>8 DEF EmitDone
  <1>9. CASE WriteCompanions
    BY <1>9 DEF WriteCompanions
  <1>10. CASE CheckCache
    BY <1>10 DEF CheckCache, IsValid
  <1>11. CASE GenerateOpenApi
    BY <1>11 DEF GenerateOpenApi
  <1>12. CASE GenerateSdk
    BY <1>12 DEF GenerateSdk
  <1>13. CASE WriteSdkHash
    BY <1>13 DEF WriteSdkHash
  <1>14. CASE SaveCache
    BY <1>14 DEF SaveCache
  <1>15. CASE Return
    BY <1>15 DEF Return
  <1>16. CASE Crash
    BY <1>16 DEF Crash
  <1>17. CASE EditConfig
    BY <1>17 DEF EditConfig
  <1>18. ASSUME NEW f \in Files, EditSource(f) PROVE OutputInv'
    BY <1>18 DEF EditSource
  <1>19. CASE UNCHANGED vars
    BY <1>19 DEF vars
  <1> QED
    BY <1>1, <1>2, <1>3, <1>4, <1>5, <1>6, <1>7, <1>8, <1>9, <1>10,
       <1>11, <1>12, <1>13, <1>14, <1>15, <1>16, <1>17, <1>18, <1>19 DEF BuildNext, BuildStep

\* The JS of a build that is not incremental.
LEMMA FullStep ==
    ASSUME BuildTypeOK, OutputInv, FullInv, [BuildNext]_vars
    PROVE  FullInv'
  <1> USE BuildAssumption
       DEF BuildTypeOK, FullInv, OutputInv, AfterEmit, AfterCompanions, AfterCheck,
           HasErrors, JsFresh, Succeeded,
           inputVars, outputVars, localVars, Go, Exit, May
  <1>1. CASE Begin
    BY <1>1 DEF Begin
  <1>2. CASE LoadConfig
    BY <1>2 DEF LoadConfig
  <1>3. CASE CleanOutDir
    BY <1>3 DEF CleanOutDir
  <1>4. CASE ReadSources
    BY <1>4 DEF ReadSources, FilesToEmit
  <1>5. CASE Analyse
    BY <1>5 DEF Analyse
  <1>6. CASE SkipEmit
    BY <1>6 DEF SkipEmit
  <1>7. ASSUME NEW f \in Files, EmitFile(f) PROVE FullInv'
    BY <1>7 DEF EmitFile
  <1>8. CASE EmitDone
    BY <1>8 DEF EmitDone
  <1>9. CASE WriteCompanions
    BY <1>9 DEF WriteCompanions, Stamp
  <1>10. CASE CheckCache
    BY <1>10 DEF CheckCache, IsValid
  <1>11. CASE GenerateOpenApi
    BY <1>11 DEF GenerateOpenApi, HasControllers, Stamp
  <1>12. CASE GenerateSdk
    BY <1>12 DEF GenerateSdk
  <1>13. CASE WriteSdkHash
    BY <1>13 DEF WriteSdkHash
  <1>14. CASE SaveCache
    BY <1>14 DEF SaveCache
  <1>15. CASE Return
    BY <1>15 DEF Return
  <1>16. CASE Crash
    BY <1>16 DEF Crash
  <1>17. CASE EditConfig
    BY <1>17 DEF EditConfig
  <1>18. ASSUME NEW f \in Files, EditSource(f) PROVE FullInv'
    BY <1>18 DEF EditSource
  <1>19. CASE UNCHANGED vars
    BY <1>19 DEF vars
  <1> QED
    BY <1>1, <1>2, <1>3, <1>4, <1>5, <1>6, <1>7, <1>8, <1>9, <1>10,
       <1>11, <1>12, <1>13, <1>14, <1>15, <1>16, <1>17, <1>18, <1>19 DEF BuildNext, BuildStep

\* No --clean and no edit of the config under a build.
LEMMA UndisturbedStep ==
    ASSUME Steady, BuildTypeOK, Undisturbed, [BuildNext]_vars
    PROVE  Undisturbed'
  <1> USE DEF Steady, BuildTypeOK, Undisturbed, Between, AfterEmit, AfterCompanions, AfterCheck,
           inputVars, outputVars, localVars, Go, Exit, May
  <1>1. CASE Begin
    BY <1>1 DEF Begin
  <1>2. CASE LoadConfig
    BY <1>2 DEF LoadConfig
  <1>3. CASE CleanOutDir
    BY <1>3 DEF CleanOutDir
  <1>4. CASE ReadSources
    BY <1>4 DEF ReadSources, FilesToEmit
  <1>5. CASE Analyse
    BY <1>5 DEF Analyse, HasErrors
  <1>6. CASE SkipEmit
    BY <1>6 DEF SkipEmit
  <1>7. ASSUME NEW f \in Files, EmitFile(f) PROVE Undisturbed'
    BY <1>7 DEF EmitFile, HasErrors
  <1>8. CASE EmitDone
    BY <1>8 DEF EmitDone, HasErrors
  <1>9. CASE WriteCompanions
    BY <1>9 DEF WriteCompanions, Stamp
  <1>10. CASE CheckCache
    BY <1>10 DEF CheckCache, IsValid
  <1>11. CASE GenerateOpenApi
    BY <1>11 DEF GenerateOpenApi, HasControllers, Stamp
  <1>12. CASE GenerateSdk
    BY <1>12 DEF GenerateSdk
  <1>13. CASE WriteSdkHash
    BY <1>13 DEF WriteSdkHash
  <1>14. CASE SaveCache
    BY <1>14 DEF SaveCache
  <1>15. CASE Return
    BY <1>15 DEF Return
  <1>16. CASE Crash
    BY <1>16 DEF Crash
  <1>17. CASE EditConfig
    BY <1>17 DEF EditConfig
  <1>18. ASSUME NEW f \in Files, EditSource(f) PROVE Undisturbed'
    BY <1>18 DEF EditSource
  <1>19. CASE UNCHANGED vars
    BY <1>19 DEF vars
  <1> QED
    BY <1>1, <1>2, <1>3, <1>4, <1>5, <1>6, <1>7, <1>8, <1>9, <1>10,
       <1>11, <1>12, <1>13, <1>14, <1>15, <1>16, <1>17, <1>18, <1>19 DEF BuildNext, BuildStep

\* .tsbuildinfo and the JS files.
LEMMA InfoStep ==
    ASSUME Steady, BuildTypeOK, OutputInv, Undisturbed, InfoTrue, [BuildNext]_vars
    PROVE  InfoTrue'
  <1> USE BuildAssumption
       DEF Steady, BuildTypeOK, Undisturbed, InfoTrue, Text, Succeeded, JsOutput, Sources,
           Between, AfterEmit, AfterCompanions, AfterCheck,
           inputVars, outputVars, localVars, Go, Exit, May
  <1>1. CASE Begin
    BY <1>1 DEF Begin
  <1>2. CASE LoadConfig
    BY <1>2 DEF LoadConfig
  <1>3. CASE CleanOutDir
    BY <1>3 DEF CleanOutDir
  <1>4. CASE ReadSources
    BY <1>4 DEF ReadSources, FilesToEmit
  <1>5. CASE Analyse
    <2>1. UNCHANGED <<info, js, seen, toEmit, emitted>>
      BY <1>5 DEF Analyse
    <2>2. pc = "analyse" /\ pc' \in {"skip", "emit"}
      BY <1>5 DEF Analyse
    <2>3. ASSUME NEW f \in Files, f \notin toEmit PROVE Text(f, seen[f])
      <3>1. info[f] = seen[f] /\ seen[f] # Nil
        BY <2>2, <2>3
      <3> QED
        BY <2>2, <3>1
    <2> QED
      BY <2>1, <2>2, <2>3
  <1>6. CASE SkipEmit
    BY <1>6 DEF SkipEmit
  <1>7. ASSUME NEW f \in Files, EmitFile(f) PROVE InfoTrue'
    <2>1. /\ pc = "emit" /\ pc' = pc /\ UNCHANGED <<info, seen, emitted>>
          /\ \A g \in Files : g # f => js'[g] = js[g]
          /\ \E k \in Configs \cup {Plain} : js'[f] = [text |-> seen[f], conf |-> k]
          /\ toEmit' = toEmit \ {f}
      BY <1>7 DEF EmitFile, HasErrors
    <2>2. ASSUME NEW g \in Files, g \in toEmit', info'[g] # Nil PROVE Text(g, info[g])'
      <3>1. g # f /\ Text(g, info[g])
        BY <2>1, <2>2
      <3> QED
        BY <2>1, <3>1
    <2>3. ASSUME NEW g \in Files \ toEmit' PROVE Text(g, seen[g])'
      <3>1. CASE g = f
        BY <2>1, <3>1
      <3>2. CASE g # f
        <4>1. Text(g, seen[g])
          BY <2>1, <2>3, <3>2
        <4> QED
          BY <2>1, <3>2, <4>1
      <3> QED
        BY <3>1, <3>2
    <2>4. pc' = "emit" /\ (~emitted' => info' = seen')
      BY <2>1
    <2> HIDE DEF Text
    <2> QED
      BY <2>2, <2>3, <2>4
  <1>8. CASE EmitDone
    BY <1>8 DEF EmitDone, HasErrors
  <1>9. CASE WriteCompanions
    BY <1>9 DEF WriteCompanions, Stamp
  <1>10. CASE CheckCache
    BY <1>10 DEF CheckCache, IsValid
  <1>11. CASE GenerateOpenApi
    BY <1>11 DEF GenerateOpenApi, HasControllers, Stamp
  <1>12. CASE GenerateSdk
    BY <1>12 DEF GenerateSdk
  <1>13. CASE WriteSdkHash
    BY <1>13 DEF WriteSdkHash
  <1>14. CASE SaveCache
    BY <1>14 DEF SaveCache
  <1>15. CASE Return
    BY <1>15 DEF Return
  <1>16. CASE Crash
    BY <1>16 DEF Crash
  <1>17. CASE EditConfig
    BY <1>17 DEF EditConfig
  <1>18. ASSUME NEW f \in Files, EditSource(f) PROVE InfoTrue'
    BY <1>18 DEF EditSource
  <1>19. CASE UNCHANGED vars
    BY <1>19 DEF vars
  <1> QED
    BY <1>1, <1>2, <1>3, <1>4, <1>5, <1>6, <1>7, <1>8, <1>9, <1>10,
       <1>11, <1>12, <1>13, <1>14, <1>15, <1>16, <1>17, <1>18, <1>19 DEF BuildNext, BuildStep

\* The SDK and the OpenAPI document.
LEMMA SdkStep ==
    ASSUME Steady, BuildTypeOK, Undisturbed, SdkFollows, [BuildNext]_vars
    PROVE  SdkFollows'
  <1> USE BuildAssumption
       DEF Steady, BuildTypeOK, Undisturbed, SdkFollows, Succeeded, Stamp, Stamps,
           Between, AfterEmit, AfterCompanions, AfterCheck,
           inputVars, outputVars, localVars, Go, Exit, May
  <1>1. CASE Begin
    BY <1>1 DEF Begin
  <1>2. CASE LoadConfig
    BY <1>2 DEF LoadConfig
  <1>3. CASE CleanOutDir
    BY <1>3 DEF CleanOutDir
  <1>4. CASE ReadSources
    BY <1>4 DEF ReadSources, FilesToEmit
  <1>5. CASE Analyse
    BY <1>5 DEF Analyse, HasErrors
  <1>6. CASE SkipEmit
    BY <1>6 DEF SkipEmit
  <1>7. ASSUME NEW f \in Files, EmitFile(f) PROVE SdkFollows'
    BY <1>7 DEF EmitFile, HasErrors
  <1>8. CASE EmitDone
    BY <1>8 DEF EmitDone, HasErrors
  <1>9. CASE WriteCompanions
    BY <1>9 DEF WriteCompanions
  <1>10. CASE CheckCache
    BY <1>10 DEF CheckCache, IsValid
  <1>11. CASE GenerateOpenApi
    BY <1>11 DEF GenerateOpenApi, HasControllers
  <1>12. CASE GenerateSdk
    BY <1>12 DEF GenerateSdk
  <1>13. CASE WriteSdkHash
    BY <1>13 DEF WriteSdkHash
  <1>14. CASE SaveCache
    BY <1>14 DEF SaveCache
  <1>15. CASE Return
    BY <1>15 DEF Return
  <1>16. CASE Crash
    BY <1>16 DEF Crash
  <1>17. CASE EditConfig
    BY <1>17 DEF EditConfig
  <1>18. ASSUME NEW f \in Files, EditSource(f) PROVE SdkFollows'
    BY <1>18 DEF EditSource
  <1>19. CASE UNCHANGED vars
    BY <1>19 DEF vars
  <1> QED
    BY <1>1, <1>2, <1>3, <1>4, <1>5, <1>6, <1>7, <1>8, <1>9, <1>10,
       <1>11, <1>12, <1>13, <1>14, <1>15, <1>16, <1>17, <1>18, <1>19 DEF BuildNext, BuildStep

\* The cache and the OpenAPI document.  A build that emitted something regenerates
\* the document; one that did not has the contents of .tsbuildinfo before it.
LEMMA CacheStep ==
    ASSUME Steady, BuildTypeOK, OutputInv, Undisturbed, InfoTrue, SdkFollows, CacheTrue,
           [BuildNext]_vars
    PROVE  CacheTrue'
  <1> USE BuildAssumption
       DEF Steady, BuildTypeOK, OutputInv, Undisturbed, InfoTrue, SdkFollows, CacheTrue,
           Settled, OpenApiFresh, HasControllers, HasErrors, Succeeded, Stamp, Stamps,
           Between, AfterEmit, AfterCompanions, AfterCheck,
           inputVars, outputVars, localVars, Go, Exit, May
  <1>1. CASE Begin
    BY <1>1 DEF Begin
  <1>2. CASE LoadConfig
    BY <1>2 DEF LoadConfig
  <1>3. CASE CleanOutDir
    BY <1>3 DEF CleanOutDir
  <1>4. CASE ReadSources
    BY <1>4 DEF ReadSources, FilesToEmit
  <1>5. CASE Analyse
    BY <1>5 DEF Analyse
  <1>6. CASE SkipEmit
    BY <1>6 DEF SkipEmit
  <1>7. ASSUME NEW f \in Files, EmitFile(f) PROVE CacheTrue'
    BY <1>7 DEF EmitFile
  <1>8. CASE EmitDone
    BY <1>8 DEF EmitDone
  <1>9. CASE WriteCompanions
    BY <1>9 DEF WriteCompanions
  <1>10. CASE CheckCache
    <2>1. UNCHANGED <<info, openapi, cache, emitted>>
      BY <1>10 DEF CheckCache
    <2>2. CASE pc' = "openapi"
      BY <2>2
    <2>3. CASE pc' = "exited"
      BY <1>10, <2>1, <2>3 DEF CheckCache
    <2> QED
      BY <1>10, <2>2, <2>3 DEF CheckCache
  <1>11. CASE GenerateOpenApi
    BY <1>11 DEF GenerateOpenApi
  <1>12. CASE GenerateSdk
    BY <1>12 DEF GenerateSdk
  <1>13. CASE WriteSdkHash
    BY <1>13 DEF WriteSdkHash
  <1>14. CASE SaveCache
    BY <1>14 DEF SaveCache
  <1>15. CASE Return
    BY <1>15 DEF Return
  <1>16. CASE Crash
    BY <1>16 DEF Crash
  <1>17. CASE EditConfig
    BY <1>17 DEF EditConfig
  <1>18. ASSUME NEW f \in Files, EditSource(f) PROVE CacheTrue'
    BY <1>18 DEF EditSource
  <1>19. CASE UNCHANGED vars
    BY <1>19 DEF vars
  <1> QED
    BY <1>1, <1>2, <1>3, <1>4, <1>5, <1>6, <1>7, <1>8, <1>9, <1>10,
       <1>11, <1>12, <1>13, <1>14, <1>15, <1>16, <1>17, <1>18, <1>19 DEF BuildNext, BuildStep

\* An incremental build that exits 0, whether or not it skipped the regeneration.
LEMMA FreshStep ==
    ASSUME Steady, BuildTypeOK, OutputInv, Undisturbed, InfoTrue, SdkFollows, CacheTrue,
           Succeeded => OpenApiFresh, [BuildNext]_vars
    PROVE  (Succeeded => OpenApiFresh)'
  <1> USE BuildAssumption
       DEF Steady, BuildTypeOK, OutputInv, Undisturbed, InfoTrue, SdkFollows, CacheTrue,
           Settled, OpenApiFresh, HasControllers, HasErrors, Succeeded, Stamp, Stamps,
           Between, AfterEmit, AfterCompanions, AfterCheck,
           inputVars, outputVars, localVars, Go, Exit, May
  <1>1. CASE Begin
    BY <1>1 DEF Begin
  <1>2. CASE LoadConfig
    BY <1>2 DEF LoadConfig
  <1>3. CASE CleanOutDir
    BY <1>3 DEF CleanOutDir
  <1>4. CASE ReadSources
    BY <1>4 DEF ReadSources, FilesToEmit
  <1>5. CASE Analyse
    BY <1>5 DEF Analyse
  <1>6. CASE SkipEmit
    BY <1>6 DEF SkipEmit
  <1>7. ASSUME NEW f \in Files, EmitFile(f) PROVE (Succeeded => OpenApiFresh)'
    BY <1>7 DEF EmitFile
  <1>8. CASE EmitDone
    BY <1>8 DEF EmitDone
  <1>9. CASE WriteCompanions
    BY <1>9 DEF WriteCompanions
  <1>10. CASE CheckCache
    <2> SUFFICES ASSUME Succeeded', HasControllers PROVE openapi = Stamp
      BY <1>10 DEF CheckCache
    <2>1. ~emitted /\ cache = conf /\ cache # Nil /\ openapi # Nil
      BY <1>10 DEF CheckCache, IsValid
    <2>2. info = seen /\ conf = seenConf
      BY <1>10 DEF CheckCache
    <2>3. \A f \in Files : info[f] # Nil /\ info[f] \notin Erroneous
      BY <1>10, <2>2 DEF CheckCache, Sources
    <2> QED
      BY <1>10, <2>1, <2>2, <2>3 DEF CheckCache
  <1>11. CASE GenerateOpenApi
    BY <1>11 DEF GenerateOpenApi
  <1>12. CASE GenerateSdk
    BY <1>12 DEF GenerateSdk
  <1>13. CASE WriteSdkHash
    BY <1>13 DEF WriteSdkHash
  <1>14. CASE SaveCache
    BY <1>14 DEF SaveCache
  <1>15. CASE Return
    BY <1>15 DEF Return
  <1>16. CASE Crash
    BY <1>16 DEF Crash
  <1>17. CASE EditConfig
    BY <1>17 DEF EditConfig
  <1>18. ASSUME NEW f \in Files, EditSource(f) PROVE (Succeeded => OpenApiFresh)'
    BY <1>18 DEF EditSource
  <1>19. CASE UNCHANGED vars
    BY <1>19 DEF vars
  <1> QED
    BY <1>1, <1>2, <1>3, <1>4, <1>5, <1>6, <1>7, <1>8, <1>9, <1>10,
       <1>11, <1>12, <1>13, <1>14, <1>15, <1>16, <1>17, <1>18, <1>19 DEF BuildNext, BuildStep

LEMMA SteadyStep == ASSUME [BuildNext]_vars PROVE Steady' = Steady
  <1>1. UNCHANGED setting
    BY DEF BuildNext, BuildStep, Begin, LoadConfig, CleanOutDir, ReadSources, Analyse,
           SkipEmit, EmitFile, EmitDone, WriteCompanions, CheckCache, GenerateOpenApi,
           GenerateSdk, WriteSdkHash, SaveCache, Return, Crash, EditConfig, EditSource, vars
  <1> QED
    BY <1>1 DEF Steady

\* BuildInv, the inductive invariant of builds over one output directory, holds in
\* every state (build.go:123-680, buildcache/cache.go).
THEOREM BuildInvariant == BuildSpec => []BuildInv
  <1>1. BuildInv /\ [BuildNext]_vars => BuildInv'
    <2> SUFFICES ASSUME BuildInv, [BuildNext]_vars PROVE BuildInv'
      OBVIOUS
    <2>1. BuildTypeOK' /\ OutputInv' /\ FullInv'
      BY TypeStep, OutputStep, FullStep DEF BuildInv
    <2>2. IncrementalInv'
      <3> SUFFICES ASSUME Steady' PROVE IncrementalInv'
        BY DEF IncrementalInv
      <3>1. /\ Steady /\ BuildTypeOK /\ OutputInv
            /\ Undisturbed /\ InfoTrue /\ SdkFollows /\ CacheTrue
            /\ Succeeded => OpenApiFresh
        BY SteadyStep DEF BuildInv, IncrementalInv
      <3>2. Undisturbed' /\ InfoTrue' /\ SdkFollows' /\ CacheTrue'
        BY <3>1, UndisturbedStep, InfoStep, SdkStep, CacheStep
      <3>3. (Succeeded => OpenApiFresh)'
        BY <3>1, FreshStep
      <3> QED
        BY <3>2, <3>3 DEF IncrementalInv
    <2> QED
      BY <2>1, <2>2 DEF BuildInv
  <1> QED
    BY InitInv, <1>1, PTL DEF BuildSpec

\* Exit 0 without "incremental" means fresh JS, companions and OpenAPI document,
\* after any history of crashes, failures and edits (build.go:443-593).
THEOREM FullBuildsFresh == BuildSpec => []FullBuildFresh
  <1>1. BuildInv => FullBuildFresh
    BY DEF BuildInv, OutputInv, FullInv, FullBuildFresh, Succeeded
  <1> QED
    BY BuildInvariant, <1>1, PTL

\* Exit 0 means fresh companions (build.go:524-557).
THEOREM CompanionsAlwaysFresh == BuildSpec => []CompanionsFresh
  <1>1. BuildInv => CompanionsFresh
    BY DEF BuildInv, OutputInv, CompanionsFresh, Succeeded
  <1> QED
    BY BuildInvariant, <1>1, PTL

\* Exit 0 of a build that emitted something means a fresh OpenAPI document
\* (build.go:548-549).
THEOREM EmittedMeansFresh == BuildSpec => []EmittedOpenApiFresh
  <1>1. BuildInv => EmittedOpenApiFresh
    BY DEF BuildInv, OutputInv, EmittedOpenApiFresh, Succeeded
  <1> QED
    BY BuildInvariant, <1>1, PTL

\* Exit 0 of undisturbed incremental builds means fresh JS text, OpenAPI document and
\* SDK, although the cache lets them skip work (build.go:542-557, cache.go:114-146).
THEOREM IncrementalBuildsFresh == BuildSpec => []IncrementalFresh
  <1>1. BuildInv => IncrementalFresh
    <2> SUFFICES ASSUME BuildInv, Succeeded, Steady
                 PROVE  (\A f \in Files : Text(f, seen[f])) /\ OpenApiFresh /\ sdk = openapi
      BY DEF IncrementalFresh, Steady
    <2>1. InfoTrue /\ SdkFollows /\ OpenApiFresh
      BY DEF BuildInv, IncrementalInv
    <2>2. ASSUME NEW f \in Files PROVE Text(f, seen[f])
      <3>1. info[f] = seen[f] /\ seen[f] # Nil
        BY <2>1, BuildAssumption DEF InfoTrue, BuildInv, BuildTypeOK, Sources
      <3> QED
        BY <2>1, <3>1 DEF InfoTrue, Succeeded
    <2> QED
      BY <2>1, <2>2 DEF SdkFollows
  <1> QED
    BY BuildInvariant, <1>1, PTL
=============================================================================
