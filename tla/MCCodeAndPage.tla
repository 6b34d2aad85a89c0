---------------------------- MODULE MCCodeAndPage ----------------------------
(***************************************************************************)
(* One run for six components that share no state: the title's threads at  *)
(* their locks, the cache of the code they run, the files they open, what  *)
(* the page asks of the browser, the library it shows, and the folder of a *)
(* PC game.  `part' says which of them moves.                              *)
(***************************************************************************)
EXTENDS MCKernelWaits, TranslationCache, BrowserFeatures, LibraryView, PcContent, ContentFiles

VARIABLE part

PortalFiles ==
    {<<"portal", "gameinfo.txt">>, <<"Portal", "GameInfo.txt">>,
     <<"portal", "portal_pak_dir.vpk">>, <<".", "Portal", "portal_pak_000.vpk">>,
     <<"hl2", "gameinfo.txt">>, <<"hl2", "", "hl2_misc_dir.vpk">>, <<"hl2.exe">>}
PortalParents == {<<>>, <<"Portal">>, <<"", "Games", "portal">>}
LowerNames == "Portal" :> "portal" @@ "GameInfo.txt" :> "gameinfo.txt" @@ "Games" :> "games"

OneLevel == <<<<"data", "level">>>>
NestedPaths == {<<"a">>, <<"a", "b">>}
FlatPaths == {<<"a">>, <<"b">>}

Apart == <<vfs, vars, cacheVars, featureVars, libraryVars, folder, wizard>>

CodeAndPageInit ==
    /\ part \in {"locks", "code", "features", "library", "folder", "wizard", "files"}
    /\ Init /\ TranslationInit /\ FeaturesInit /\ LibraryInit /\ ContentInit /\ WizardInit /\ FilesInit
    /\ part # "locks" => cur = CHOOSE t \in Threads : TRUE
    /\ part # "features" => page.keepAwake /\ page.serviceWorker

CodeAndPageNext ==
    \/ part = "locks" /\ Next
         /\ UNCHANGED <<cacheVars, featureVars, libraryVars, folder, wizard, vfs, part>>
    \/ part = "code" /\ TranslationNext
         /\ UNCHANGED <<vars, featureVars, libraryVars, folder, wizard, vfs, part>>
    \/ part = "features" /\ FeaturesNext
         /\ UNCHANGED <<vars, cacheVars, libraryVars, folder, wizard, vfs, part>>
    \/ part = "library" /\ LibraryNext
         /\ UNCHANGED <<vars, cacheVars, featureVars, folder, wizard, vfs, part>>
    \/ part = "folder" /\ ContentNext
         /\ UNCHANGED <<vars, cacheVars, featureVars, libraryVars, wizard, vfs, part>>
    \/ part = "wizard" /\ WizardNext
         /\ UNCHANGED <<vars, cacheVars, featureVars, libraryVars, folder, vfs, part>>
    \/ part = "files" /\ FilesNext
         /\ UNCHANGED <<vars, cacheVars, featureVars, libraryVars, folder, wizard, part>>
    \/ part \in {"library", "folder", "wizard"} /\ UNCHANGED <<Apart, part>>   \* the player may stop there

CodeAndPageSpec == CodeAndPageInit /\ [][CodeAndPageNext]_<<Apart, part>>

CodeSpec == CodeAndPageSpec /\ part = "code"
FilesSpec == CodeAndPageSpec /\ part = "files"
=============================================================================
