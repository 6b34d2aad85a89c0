---------------------------- MODULE ContentFiles ----------------------------
(***************************************************************************)
(* The files a title opens (kernel_xboxkrnl_services.cpp): one table of    *)
(* entries for the game disc and for the packages of saved content, the    *)
(* links that name their devices, and the handles, which keep an entry's   *)
(* number.  Paths are sequences of names below a device; device 0 is the   *)
(* disc.  A link is a whole first component, as in game: or save:.         *)
(***************************************************************************)
EXTENDS Integers, Sequences, FiniteSets, SequencesExt

CONSTANTS
    DiscPaths,    \* what the loader registers, in order
    ContentPaths, \* what titles name in their packages
    PackageNames, \* content type and file name
    Roots,        \* names titles mount packages under
    LinkNames,    \* names of links titles create themselves
    Dispositions, \* the ones titles use, of 0 .. 5
    FileHandles,
    FolderHandles, \* handles a title keeps for folders only
    MaxDevices    \* bound on the packages made in a run

ASSUME ContentFilesAssumption ==
    /\ DiscPaths \in Seq(Seq(STRING) \ {<<>>}) /\ ContentPaths \subseteq Seq(STRING)
    /\ {"game", "d"} \cap (Roots \cup LinkNames) = {} /\ Roots \cap LinkNames = {}
    /\ MaxDevices \in Nat

VARIABLE vfs

Disc == 0
NoFile == <<-1, <<>>>>
Over(f, g) == [x \in DOMAIN f \cup DOMAIN g |-> IF x \in DOMAIN f THEN f[x] ELSE g[x]]
With(f, x, y) == Over([z \in {x} |-> y], f)
Dropped(f, gone) == [x \in DOMAIN f \ gone |-> f[x]]

-----------------------------------------------------------------------------
(* The table.  `by' is the file as whose content an entry was last written. *)

(* RegisterVfsEntryOn: the directories above, up to the nearest one that is *)
(* there, come first; an entry that is there takes the new attributes.      *)
Registered(table, device, path, directory) ==
    LET Key(n) == <<device, SubSeq(path, 1, n)>>
        last == Len(path)
        near == Max({0} \cup {n \in 1 .. last - 1 : Key(n) \in DOMAIN table.index})
        again == Key(last) \in DOMAIN table.index
        count == (IF again THEN last - 1 ELSE last) - near
        new == [n \in 1 .. count |-> [key |-> Key(near + n), by |-> NoFile,
                                     directory |-> near + n < last \/ directory]]
        places == [key \in {new[n].key : n \in 1 .. count} |->
                      Len(table.entries) + Len(key[2]) - near]
        added == [table EXCEPT !.entries = @ \o new, !.index = Over(places, @)]
    IN  IF again THEN [added EXCEPT !.entries[table.index[Key(last)]].directory = directory]
        ELSE added

(* What is left of a sequence, in its order.                                *)
WithKept(out, x, kept) == IF x \in kept THEN Append(out, x) ELSE out
Remaining(s, kept) ==
    LET upTo[n \in 0 .. Len(s)] == IF n = 0 THEN <<>> ELSE WithKept(upTo[n - 1], s[n], kept)
    IN  upTo[Len(s)]

(* DeleteContentFiles, of some devices                                      *)
IndexOf(kept) ==
    [key \in {kept[n].key : n \in DOMAIN kept} |-> CHOOSE n \in DOMAIN kept : kept[n].key = key]
Without(entries, devices) ==
    Remaining(entries, {entry \in Range(entries) : entry.key[1] \notin devices})
FaultyFilesDeleted(table, devices) ==
    LET left == Without(table.entries, devices)
    IN  [table EXCEPT !.entries = left, !.index = Over(IndexOf(left), @)]
FilesDeleted(table, devices) ==
    LET left == Without(table.entries, devices)
    IN  [table EXCEPT !.entries = left, !.index = IndexOf(left)]

(* The packages, the roots they are mounted under, the links, who made the  *)
(* first link there is, and the handles that are open.                      *)
NoFiles == [entries |-> <<>>, index |-> <<>>, packages |-> <<>>, roots |-> <<>>, nextDevice |-> 1,
            links |-> <<>>, first |-> "nobody", handles |-> <<>>]
DiscFiles ==
    LET upTo[n \in 0 .. Len(DiscPaths)] ==
            IF n = 0 THEN NoFiles ELSE Registered(upTo[n - 1], Disc, DiscPaths[n], FALSE)
    IN  upTo[Len(DiscPaths)]

FilesInit == vfs = DiscFiles

-----------------------------------------------------------------------------
(* Names                                                                   *)

(* EnsureDefaultSymlinks *)
DefaultLinks == [name \in {"game", "d"} |-> Disc]
DefaultsEnsured(fs) ==
    IF DOMAIN fs.links = {} THEN [fs EXCEPT !.links = DefaultLinks, !.first = "kernel"] ELSE fs

Devices(fs) == {Disc} \cup {fs.packages[p] : p \in DOMAIN fs.packages}

(* ObjectAttributesPath and ResolveGuestPath: below a link, or below what   *)
(* the entry of a directory's handle says.                                  *)
Located(fs, where, path) ==
    IF where \in DOMAIN fs.handles
    THEN LET dir == fs.handles[where]
             base == IF dir.entry \in DOMAIN fs.entries THEN fs.entries[dir.entry].key[2] ELSE <<>>
         IN  IF dir.device \in Devices(fs) THEN <<dir.device, base \o path>> ELSE NoFile
    ELSE IF where \in DOMAIN fs.links /\ fs.links[where] \in Devices(fs)
    THEN <<fs.links[where], path>>
    ELSE NoFile

(* A link goes; with the last one the defaults come back at the next path.  *)
Unlinked(fs, name) ==
    LET left == Dropped(fs.links, {name})
    IN  [fs EXCEPT !.links = left, !.first = IF DOMAIN left = {} THEN "nobody" ELSE @]

-----------------------------------------------------------------------------
(* Files                                                                   *)

(* NtCreateFile (NtOpenFile is disposition 1).  Dispositions: 0 supersede,  *)
(* 1 open, 2 create, 3 open if, 4 overwrite, 5 overwrite if.  `wants' is    *)
(* what FILE_DIRECTORY_FILE and FILE_NON_DIRECTORY_FILE ask for.            *)
CreateFile(h, where, path, disposition, wants) ==
    LET fs == DefaultsEnsured(vfs)
        key == Located(fs, where, path)
        device == key[1]
        root == key # NoFile /\ key[2] = <<>>
        parent == <<device, SubSeq(key[2], 1, Len(key[2]) - 1)>>
        mayCreate == /\ disposition \notin {1, 4} /\ key # NoFile /\ device # Disc
                     /\ Len(key[2]) > 1 => parent \in DOMAIN fs.index
        new == ~root /\ key \notin DOMAIN fs.index
        directory == IF new THEN wants = "directory"
                     ELSE root \/ fs.entries[fs.index[key]].directory
        empties == ~directory /\ disposition \in {0, 4, 5}
        suits == IF directory THEN wants # "file" ELSE wants # "directory"
        Opened(table) ==
            LET entry == IF root THEN 0 ELSE table.index[key]
                handle == [entry |-> entry, device |-> device,
                           file |-> IF directory THEN NoFile ELSE key]
            IN  [table EXCEPT !.handles = With(@, h, handle)]
        emptied == IF empties THEN [fs EXCEPT !.entries[fs.index[key]].by = NoFile] ELSE fs
    IN  /\ h \notin DOMAIN vfs.handles
        /\ vfs' = IF new
                  THEN IF mayCreate THEN Opened(Registered(fs, device, key[2], directory)) ELSE fs
                  ELSE IF disposition = 2 \/ (empties /\ device = Disc) THEN fs
                  ELSE IF suits THEN Opened(emptied) ELSE emptied

(* NtWriteFile, and NtSetInformationFile's end of file; titles do so with   *)
(* handles they opened on files.                                            *)
WriteFile(h) ==
    /\ h \in DOMAIN vfs.handles /\ vfs.handles[h].file # NoFile
    /\ LET handle == vfs.handles[h]
       IN  /\ handle.entry \in DOMAIN vfs.entries
           /\ ~vfs.entries[handle.entry].directory /\ vfs.entries[handle.entry].key[1] # Disc
           /\ vfs' = [vfs EXCEPT !.entries[handle.entry].by = handle.file]

(* NtClose *)
CloseFile(h) ==
    /\ h \in DOMAIN vfs.handles
    /\ vfs' = [vfs EXCEPT !.handles = Dropped(@, {h})]

(* ObCreateSymbolicLink and ObDeleteSymbolicLink                            *)
Linked(fs, name) ==
    LET ensured == DefaultsEnsured(fs)
    IN  [ensured EXCEPT !.links = With(@, name, Disc)]
CreateLink(name) == vfs' = Linked(vfs, name)
DeleteLink(name) == name \in DOMAIN vfs.links /\ vfs' = Unlinked(vfs, name)

-----------------------------------------------------------------------------
(* Saved content                                                           *)

(* MountContent does not ask for the default links.                         *)
Mounted(fs, root, device) ==
    [fs EXCEPT !.roots = With(@, root, device), !.links = With(@, root, device),
               !.first = IF @ = "nobody" THEN "content" ELSE @]

ContentCreated(fs, root, name) ==
    IF root \in DOMAIN fs.roots \/ name \in DOMAIN fs.packages THEN fs
    ELSE Mounted([fs EXCEPT !.packages = With(@, name, fs.nextDevice), !.nextDevice = @ + 1],
                 root, fs.nextDevice)

ContentOpened(fs, root, name) ==
    IF root \in DOMAIN fs.roots \/ name \notin DOMAIN fs.packages THEN fs
    ELSE Mounted(fs, root, fs.packages[name])

ContentDeleted(fs, name) ==
    IF name \notin DOMAIN fs.packages \/ \E r \in DOMAIN fs.roots : fs.roots[r] = fs.packages[name]
    THEN fs
    ELSE [FilesDeleted(fs, {fs.packages[name]}) EXCEPT !.packages = Dropped(@, {name})]

(* XamContentCreate: 1 create new, 2 create always, 3 open existing,        *)
(* 4 open always, 5 truncate existing.  The deletion may be refused.        *)
ContentCreate(root, name, flags) ==
    LET exists == name \in DOMAIN vfs.packages
        replaces == exists /\ flags \in {2, 5}
        creates == (~exists /\ flags \in {1, 2, 4}) \/ replaces
        rid == IF replaces THEN ContentDeleted(vfs, name) ELSE vfs
    IN  /\ creates => vfs.nextDevice <= MaxDevices
        /\ vfs' = IF creates THEN ContentCreated(rid, root, name)
                  ELSE IF exists /\ flags \in {3, 4} THEN ContentOpened(vfs, root, name)
                  ELSE vfs

(* XamContentClose: handles of the package's files stay open.               *)
ContentClose(root) ==
    /\ root \in DOMAIN vfs.roots
    /\ vfs' = Unlinked([vfs EXCEPT !.roots = Dropped(@, {root})], root)

ContentDelete(name) == vfs' = ContentDeleted(vfs, name)

(* The kernel is reset between runs; the disc's entries survive.            *)
KernelReset ==
    LET disc == FilesDeleted(vfs, {vfs.packages[name] : name \in DOMAIN vfs.packages})
    IN  vfs' = [NoFiles EXCEPT !.entries = disc.entries, !.index = disc.index]

FileSteps ==
    \/ \E h \in FileHandles \cup FolderHandles, disposition \in Dispositions,
          wants \in {"file", "directory"} :
        /\ h \in FolderHandles => wants = "directory"
        /\ \/ \E where \in {"game"} \cup LinkNames, n \in DOMAIN DiscPaths :
                CreateFile(h, where, DiscPaths[n], disposition, wants)
           \/ \E where \in Roots \cup FolderHandles, path \in ContentPaths :
                CreateFile(h, where, path, disposition, wants)
    \/ \E h \in FileHandles : WriteFile(h)
    \/ \E h \in FileHandles \cup FolderHandles : CloseFile(h)
    \/ \E name \in LinkNames : CreateLink(name) \/ DeleteLink(name)

ContentSteps ==
    \/ \E root \in Roots :
        \/ \E name \in PackageNames, flags \in 1 .. 5 : ContentCreate(root, name, flags)
        \/ ContentClose(root)
    \/ \E name \in PackageNames : ContentDelete(name)
    \/ KernelReset

FilesNext == FileSteps \/ ContentSteps

-----------------------------------------------------------------------------
(* Properties                                                              *)

(* Every entry is found under its own path and nothing else is found, and   *)
(* what its path goes through is found too, whatever was deleted before     *)
(* (it may be a file: the creation asks only whether it exists).            *)
IndexIsTheTable ==
    /\ DOMAIN vfs.index = {vfs.entries[n].key : n \in DOMAIN vfs.entries}
    /\ \A n \in DOMAIN vfs.entries :
        LET key == vfs.entries[n].key
        IN  /\ vfs.index[key] = n
            /\ \A k \in 1 .. Len(key[2]) - 1 : <<key[1], SubSeq(key[2], 1, k)>> \in DOMAIN vfs.index

(* A package that is open under a root is there with all its files: only a  *)
(* closed one can be deleted, by whatever call, and every file belongs to   *)
(* the disc or to a package that exists.                                    *)
OpenContentStays ==
    /\ \A r \in DOMAIN vfs.roots : vfs.roots[r] \in Devices(vfs) /\ vfs.links[r] = vfs.roots[r]
    /\ \A n \in DOMAIN vfs.entries : vfs.entries[n].key[1] \in Devices(vfs)

(* The names game and d lead to the disc whenever there is any link at all, *)
(* unless content was mounted before the first path was looked up.          *)
GameIsMounted ==
    DOMAIN vfs.links # {} /\ vfs.first # "content" =>
        {"game", "d"} \subseteq DOMAIN vfs.links /\ vfs.links["game"] = Disc

(* "Saves last for the session" (README.md): what a title writes through a  *)
(* handle goes into the file it opened, so every file holds what was        *)
(* written to it.                                                           *)
SavesAreKept ==
    \A n \in DOMAIN vfs.entries : vfs.entries[n].by \in {NoFile, vfs.entries[n].key}

\* Files, packages and links are what the title made of them.
ContentIsKept == IndexIsTheTable /\ OpenContentStays /\ GameIsMounted
=============================================================================
