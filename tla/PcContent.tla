------------------------------ MODULE PcContent ------------------------------
(***************************************************************************)
(* The files of a PC game the player chooses as a folder                   *)
(* (src/runtime/pc-content-source.js): the folders all of them are in are  *)
(* stripped, names are matched without regard to case, and the game is     *)
(* recognised by the files it needs.  And the sheet the player adds the    *)
(* game with (pc-recompiled-ui.js), whose steps wait for the database and  *)
(* the runtime's files while the player goes on.                           *)
(***************************************************************************)
EXTENDS Integers, Sequences, FiniteSets, SequencesExt

CONSTANTS
    PcFiles,   \* files the folder may hold: paths, as sequences of names
    PcParents, \* what the browser puts before them, the same way
    Lowercase, \* a function from the names with capitals to those without
    MaxFolders,\* bound on the folders chosen
    PcGames,   \* games of the library, or to be
    KnownGames,\* those that are there when the page is loaded
    Runtimes,  \* runtime packages the player may choose
    Blocked,   \* those whose requirements the browser does not meet
    NoPcGame, NoRuntime,
    MaxOpened, MaxChosen \* bounds on the sheets opened, and on what is chosen in them

ASSUME WizardAssumption ==
    /\ KnownGames \subseteq PcGames /\ Blocked \subseteq Runtimes
    /\ NoPcGame \notin PcGames /\ NoRuntime \notin Runtimes

VARIABLES
    folder,  \* what is chosen, and the source made of it
    wizard   \* the sheet, the library's records of PC games and their sources

FileSize == 1
NoSource == [root |-> <<>>, names |-> <<>>, size |-> 0]

ContentInit == folder = [parent |-> <<>>, files |-> {}, source |-> NoSource, game |-> FALSE, chosen |-> 0]

(* normalizePath *)
Normalized(path) == SelectSeq(path, LAMBDA part : part \notin {"", ".", ".."})
LowerPath(path) ==
    [i \in 1 .. Len(path) |-> IF path[i] \in DOMAIN Lowercase THEN Lowercase[path[i]] ELSE path[i]]

(* The longest path all of them start with; none if that is a file.         *)
CommonRoot(paths) ==
    LET first == CHOOSE p \in paths : TRUE
        shared == {n \in 0 .. Len(first) : \A p \in paths : IsPrefix(SubSeq(first, 1, n), p)}
        root == SubSeq(first, 1, CHOOSE n \in shared : \A m \in shared : m <= n)
    IN  IF root \in paths THEN <<>> ELSE root

Below(root, path) == SubSeq(path, Len(root) + 1, Len(path))

(* Files whose names differ in case only are one entry: the last one wins.  *)
Entries(root, paths) ==
    [name \in {LowerPath(Below(root, p)) : p \in paths} |->
        CHOOSE below \in {Below(root, p) : p \in paths} : LowerPath(below) = name]

(* createPcFileListSource *)
FileListSource(chosen) ==
    LET paths == {Normalized(p) : p \in chosen}
        root == CommonRoot(paths)
    IN  [root |-> root, names |-> Entries(root, paths), size |-> FileSize * Cardinality(chosen)]

Has(source, path) == LowerPath(Normalized(path)) \in DOMAIN source.names

(* detectPortalPcContent: what it is, its packages, and what it builds on.  *)
DetectPortal(source) ==
    /\ Has(source, <<"portal", "gameinfo.txt">>)
    /\ Has(source, <<"portal", "portal_pak_dir.vpk">>) \/ Has(source, <<"portal", "portal_pak_000.vpk">>)
    /\ Has(source, <<"hl2", "hl2_misc_dir.vpk">>) \/ Has(source, <<"hl2", "gameinfo.txt">>)

ChooseFolder(parent, files) ==
    /\ folder.chosen < MaxFolders /\ files # {}
    /\ LET source == FileListSource({parent \o f : f \in files})
       IN  folder' = [parent |-> parent, files |-> files, source |-> source,
                      game |-> DetectPortal(source), chosen |-> folder.chosen + 1]

ContentNext == \E parent \in PcParents, files \in SUBSET PcFiles : ChooseFolder(parent, files)

-----------------------------------------------------------------------------
(* The sheet.  A record is the game whose record it is (its importedAt) and *)
(* the runtime it names; a source is the runtime bound with the files.      *)

NoPcRecord == [of |-> NoPcGame, runtime |-> NoRuntime]

WizardInit ==
    wizard = [open |-> FALSE, opening |-> 0, opened |-> 0, chosen |-> 0,
              relink |-> NoPcGame, matched |-> FALSE, package |-> NoRuntime, enabled |-> FALSE,
              loading |-> {}, adding |-> {},
              library |-> [g \in PcGames |-> IF g \in KnownGames THEN [NoPcRecord EXCEPT !.of = g] ELSE NoPcRecord],
              bound |-> [g \in PcGames |-> NoRuntime]]

Capable(w) == w.package \notin Blocked \cup {NoRuntime}

(* updateLaunch; not called where the sheet closes or a runtime is dropped. *)
Launchable(w) == [w EXCEPT !.enabled = w.matched /\ Capable(w)]
ResetWizard(w) == Launchable([w EXCEPT !.matched = FALSE, !.package = NoRuntime, !.relink = NoPcGame])

(* openWizard: at once for a new game, after a look at the record for one   *)
(* that is relinked.                                                        *)
OpenWizard(game) ==
    /\ ~wizard.open /\ wizard.opened < MaxOpened
    /\ game \in {NoPcGame} \cup {g \in PcGames : wizard.library[g] # NoPcRecord}
    /\ wizard' = [ResetWizard(wizard) EXCEPT
                     !.relink = game, !.opened = @ + 1, !.open = (game = NoPcGame),
                     !.opening = IF game = NoPcGame THEN @ ELSE @ + 1]

RecordSeen ==
    /\ wizard.opening > 0
    /\ wizard' = [wizard EXCEPT !.open = TRUE, !.opening = @ - 1]

CloseWizard ==
    /\ wizard.open
    /\ wizard' = [wizard EXCEPT !.open = FALSE, !.package = NoRuntime]

Choosing == wizard.open /\ wizard.chosen < MaxChosen

(* handleGameFiles: a folder that is the game, or another (ChooseFolder).   *)
HandleGameFiles(isGame) ==
    /\ Choosing
    /\ wizard' = Launchable([wizard EXCEPT !.matched = isGame, !.chosen = @ + 1])

(* handleRuntimeZip, handleRuntimeFolder: the one before is dropped first.  *)
HandleRuntime(runtime) ==
    /\ Choosing /\ runtime \notin wizard.loading
    /\ wizard' = [wizard EXCEPT !.package = NoRuntime, !.loading = @ \cup {runtime}, !.chosen = @ + 1]

RuntimeLoaded(runtime) ==
    /\ runtime \in wizard.loading
    /\ \E result \in {runtime, NoRuntime} :
        wizard' = Launchable([wizard EXCEPT !.package = result, !.loading = @ \ {runtime}])

(* addOrRelink.  A new game gets an id of its own; the record of a relinked *)
(* one is read first.                                                       *)
NewIds(w) == {g \in PcGames : w.library[g] = NoPcRecord /\ w.bound[g] = NoRuntime}
RecordFor(w, game, record) ==
    [of |-> IF record = NoPcRecord THEN game ELSE record.of, runtime |-> w.package]
Adding(game, at, record) == [game |-> game, at |-> at, record |-> record]

AddOrRelink ==
    /\ wizard.open /\ wizard.enabled /\ wizard.matched /\ Capable(wizard)
    /\ \E game \in IF wizard.relink # NoPcGame THEN {wizard.relink} ELSE NewIds(wizard) :
        wizard' = [wizard EXCEPT
                     !.bound[game] = wizard.package,
                     !.adding = @ \cup {IF wizard.relink # NoPcGame THEN Adding(game, "get", NoPcRecord)
                                       ELSE Adding(game, "put", RecordFor(wizard, game, NoPcRecord))}]

FaultyReadFor(w, add) == w.library[IF w.relink # NoPcGame THEN w.relink ELSE add.game]
ReadFor(w, add) == w.library[add.game]

\* The database fails.
AddFails(add) == add \in wizard.adding /\ wizard' = [wizard EXCEPT !.adding = @ \ {add}]

(* getGame answers.  The runtime named is the sheet's by now; if there is   *)
(* none any more, the rest is not done.                                     *)
RecordRead(add) ==
    /\ add \in wizard.adding /\ add.at = "get"
    /\ wizard' = [wizard EXCEPT !.adding = (@ \ {add}) \cup
                     IF wizard.package = NoRuntime THEN {}
                     ELSE {Adding(add.game, "put", RecordFor(wizard, add.game, ReadFor(wizard, add)))}]

(* putGame answers.  The sheet closes, whoever opened it.                   *)
RecordPut(add) ==
    /\ add \in wizard.adding /\ add.at = "put"
    /\ wizard' = [wizard EXCEPT !.adding = @ \ {add}, !.library[add.game] = add.record,
                     !.package = NoRuntime, !.relink = NoPcGame, !.open = FALSE]

WizardNext ==
    \/ \E game \in PcGames \cup {NoPcGame} : OpenWizard(game)
    \/ RecordSeen \/ CloseWizard \/ AddOrRelink
    \/ \E isGame \in BOOLEAN : HandleGameFiles(isGame)
    \/ \E runtime \in Runtimes : HandleRuntime(runtime) \/ RuntimeLoaded(runtime)
    \/ \E add \in wizard.adding : RecordRead(add) \/ RecordPut(add) \/ AddFails(add)

-----------------------------------------------------------------------------
(* The files of a game that lie in more than one folder are found under the *)
(* game's own names, wherever the folder was and however its names are      *)
(* written.                                                                 *)
FilesKeepTheirNames ==
    (\E f, g \in folder.files : Head(Normalized(f)) # Head(Normalized(g))) =>
        \A f \in folder.files : Has(folder.source, f)

(* A folder is taken for the game exactly if it holds what the game needs,  *)
(* whatever folders it is in.                                               *)
GameIsRecognised ==
    LET holds(path) == \E f \in folder.files : LowerPath(Normalized(f)) = path
    IN  folder.game <=>
            /\ holds(<<"portal", "gameinfo.txt">>)
            /\ holds(<<"portal", "portal_pak_dir.vpk">>) \/ holds(<<"portal", "portal_pak_000.vpk">>)
            /\ holds(<<"hl2", "hl2_misc_dir.vpk">>) \/ holds(<<"hl2", "gameinfo.txt">>)

(* A game that is added has a source, of a runtime the browser can run, and *)
(* one that is relinked keeps its own record, also when the sheet is closed *)
(* or opened for another game, or a runtime dropped, while it waits.        *)
GamesAreLinked ==
    \A g \in PcGames :
        LET record == wizard.library[g]
        IN  /\ record # NoPcRecord => record.of = g
            /\ record.runtime # NoRuntime => wizard.bound[g] \notin Blocked \cup {NoRuntime}

\* A folder is recognised and its files found, wherever they lie, and linked with its game.
FolderIsTheGame == FilesKeepTheirNames /\ GameIsRecognised /\ GamesAreLinked
=============================================================================
