----------------------------- MODULE LibraryView -----------------------------
(***************************************************************************)
(* The library as the player sees it (src/app.js) over its database        *)
(* (src/library/game-library.js): the grid of games, drawn a tile at a     *)
(* time while covers load, the details of one game, and the records that   *)
(* playing a game, choosing its cover and removing it read and write in    *)
(* separate transactions.                                                  *)
(***************************************************************************)
EXTENDS Integers, Sequences, FiniteSets, SequencesExt

CONSTANTS
    LibraryGames,  \* game ids
    NoGame,
    MaxClock,      \* bound on the games played
    MaxCalls,      \* bound on the calls of the page that overlap
    MaxDrawings    \* bound on the drawings of the grid that overlap

ASSUME LibraryAssumption == IsFiniteSet(LibraryGames) /\ NoGame \notin LibraryGames

VARIABLES
    db,     \* records of the games, stored covers
    grid,   \* the list the page has, the search, the tiles, the drawings in progress
    detail, \* the game the page holds, the one its details show
    calls,  \* calls that wait for the database
    marks   \* history: plays, and what calls that overlapped have spoiled

libraryVars == <<db, grid, detail, calls, marks>>

NoRecord == [id |-> NoGame, played |-> 0, cover |-> FALSE]
Everything == "all"

LibraryInit ==
    /\ db = [record |-> [g \in LibraryGames |-> [id |-> g, played |-> 0, cover |-> FALSE]],
             covers |-> {}]
    /\ grid = [list |-> <<>>, search |-> Everything, tiles |-> <<>>, drawing |-> {}, crossed |-> FALSE]
    /\ detail = [game |-> NoRecord, shown |-> NoGame, open |-> FALSE, crossed |-> FALSE]
    /\ calls = {}
    /\ marks = [clock |-> 0, plays |-> [g \in LibraryGames |-> 0], spoiled |-> {}]

Kept == {g \in LibraryGames : db.record[g] # NoRecord}

-----------------------------------------------------------------------------
(* The grid *)

Newer(a, b) == db.record[a].played > db.record[b].played

(* listGames: last played first.                                            *)
ListGames == {order \in SetToSeqs(Kept) :
                \A i, j \in 1 .. Len(order) : i < j => ~Newer(order[j], order[i])}

(* The search is empty or fits a single game.                               *)
Matching(list, search) ==
    IF search = Everything THEN list
    ELSE IF search \in ToSet(list) THEN <<search>> ELSE <<>>

MayDraw == Cardinality(grid.drawing) < MaxDrawings

(* renderLibrary empties the grid and adds a tile when its cover is there.  *)
Drawn(g, list, search) ==
    [g EXCEPT !.list = list, !.search = search, !.tiles = <<>>,
              !.drawing = {todo \in @ \cup {Matching(list, search)} : todo # <<>>},
              !.crossed = g.drawing # {}]

DrawTile(todo) ==
    /\ grid' = [grid EXCEPT !.tiles = Append(@, Head(todo)),
                            !.drawing = {rest \in (@ \ {todo}) \cup {Tail(todo)} : rest # <<>>}]
    /\ UNCHANGED <<db, detail, calls, marks>>

Search(text) ==
    /\ MayDraw /\ text # grid.search /\ ~detail.open
    /\ grid' = Drawn(grid, grid.list, text)
    /\ UNCHANGED <<db, detail, calls, marks>>

(* refreshLibrary *)
Refreshed == MayDraw /\ \E list \in ListGames : grid' = Drawn(grid, list, grid.search)

(* boot *)
FirstList == grid.list = <<>> /\ Refreshed /\ UNCHANGED <<db, detail, calls, marks>>

-----------------------------------------------------------------------------
(* Calls of the page: what they have read, and what they wait for.          *)

Call(kind, g, record) == [kind |-> kind, game |-> g, record |-> record]
MayCall(kind, g) ==
    /\ Cardinality(calls) < MaxCalls
    /\ \A c \in calls : c.kind # kind \/ c.game # g

(* A call that finds another one on its game may spoil it, or be spoiled.   *)
Spoils(g) == IF \E c \in calls : c.game = g /\ c.kind # "open" THEN {g} ELSE {}

Begin(kind, g, record) ==
    /\ MayCall(kind, g)
    /\ calls' = calls \cup {Call(kind, g, record)}
    /\ marks' = [marks EXCEPT !.spoiled = @ \cup Spoils(g)]

(* openGame: the record, then the cover, then the details.                  *)
OpenGame(g) ==
    /\ ~detail.open /\ g \in ToSet(grid.tiles)
    /\ MayCall("open", g)
    /\ calls' = calls \cup {Call("open", g, NoRecord)}
    /\ detail' = [detail EXCEPT !.crossed = \E c \in calls : c.kind \in {"open", "show", "remove", "close"}]
    /\ UNCHANGED <<db, grid, marks>>

GameRead(c) ==
    /\ c.kind = "open"
    /\ detail' = [detail EXCEPT !.game = db.record[c.game]]
    /\ calls' = (calls \ {c}) \cup (IF c.game \in Kept THEN {Call("show", c.game, NoRecord)} ELSE {})
    /\ marks' = [marks EXCEPT !.spoiled = @ \cup {other.game : other \in
                                                {o \in calls : o.kind = "cover"}}]
    /\ UNCHANGED <<db, grid>>

(* renderDetail shows the game it began with.                               *)
DetailShown(c) == detail' = [detail EXCEPT !.shown = c.game, !.open = TRUE]

ShowDetail(c) ==
    /\ c.kind = "show"
    /\ DetailShown(c)
    /\ calls' = calls \ {c}
    /\ UNCHANGED <<db, grid, marks>>

(* playCurrent: markPlayed reads the record anew and writes it back.        *)
PlayCurrent ==
    LET g == detail.game.id
    IN  /\ detail.open /\ g # NoGame /\ marks.clock < MaxClock
        /\ Begin("play", g, db.record[g])
        /\ UNCHANGED <<db, grid, detail>>

FaultyPlayed(record) == record
Played(record) == [record EXCEPT !.played = marks.clock + 1]

MarkPlayed(c) ==
    /\ c.kind = "play" /\ marks.clock < MaxClock
    /\ IF c.record = NoRecord THEN UNCHANGED <<db, marks>>
       ELSE /\ db' = [db EXCEPT !.record[c.game] = Played(c.record)]
            /\ marks' = [marks EXCEPT !.clock = @ + 1, !.plays[c.game] = marks.clock + 1]
    /\ calls' = calls \ {c}
    /\ UNCHANGED <<grid, detail>>

(* chooseCover stores the image and then writes the record the page holds   *)
(* by then.  If that is not the one it began with, the cover is lost; if    *)
(* the game was played since it was opened, the play is.                    *)
ChooseCover ==
    LET g == detail.game.id
    IN  /\ detail.open /\ g # NoGame
        /\ Begin("cover", g, NoRecord)
        /\ UNCHANGED <<db, grid, detail>>

CoverStored(c) ==
    LET g == detail.game.id
        record == IF g = c.game THEN [detail.game EXCEPT !.cover = TRUE] ELSE detail.game
    IN  /\ c.kind = "cover"
        /\ db' = [db EXCEPT !.covers = @ \cup {c.game}]
        /\ detail' = [detail EXCEPT !.game = record]
        /\ calls' = (calls \ {c}) \cup (IF g = NoGame THEN {} ELSE {Call("put", g, record)})
        /\ marks' = [marks EXCEPT !.spoiled =
                        @ \cup (IF g = c.game THEN {} ELSE {c.game} \cup Spoils(g))
                          \cup (IF g # NoGame /\ record.played # marks.plays[g] THEN {g} ELSE {})]
        /\ UNCHANGED grid

CoverChosen(c) ==
    /\ c.kind = "put"
    /\ db' = [db EXCEPT !.record[c.game] = c.record]
    /\ calls' = (calls \ {c}) \cup {Call("refresh", c.game, NoRecord)}
    /\ UNCHANGED <<grid, detail, marks>>

(* removeCurrentGame: deleteGame reads the record for its cover, and then   *)
(* deletes both in one transaction.                                         *)
RemoveCurrent ==
    LET g == detail.game.id
    IN  /\ detail.open /\ g # NoGame
        /\ Begin("remove", g, db.record[g])
        /\ detail' = [detail EXCEPT !.crossed = @ \/ \E c \in calls : c.kind \in {"open", "show"}]
        /\ UNCHANGED <<db, grid>>

Deleted(g, record) ==
    [db EXCEPT !.record[g] = NoRecord, !.covers = IF record.cover THEN @ \ {g} ELSE @]

GameRemoved(c) ==
    /\ c.kind = "remove"
    /\ db' = Deleted(c.game, c.record)
    /\ detail' = [detail EXCEPT !.game = NoRecord]
    /\ calls' = (calls \ {c}) \cup {Call("close", c.game, NoRecord)}
    /\ UNCHANGED <<grid, marks>>

DetailAfter(c) == IF c.kind = "close" THEN [detail EXCEPT !.open = FALSE] ELSE detail

(* Both end with the list read again; after a removal the page goes back.   *)
ListAgain(c) ==
    /\ c.kind \in {"refresh", "close"}
    /\ Refreshed
    /\ detail' = DetailAfter(c)
    /\ calls' = calls \ {c}
    /\ UNCHANGED <<db, marks>>

BackToLibrary ==
    /\ detail.open /\ MayDraw
    /\ detail' = [detail EXCEPT !.open = FALSE]
    /\ grid' = Drawn(grid, grid.list, grid.search)
    /\ UNCHANGED <<db, calls, marks>>

(* After an overlap on a game nothing more is followed.                     *)
LibraryNext ==
    /\ marks.spoiled = {} /\ ~detail.crossed
    /\ \/ \E todo \in grid.drawing : DrawTile(todo)
       \/ \E text \in {Everything} \cup LibraryGames : Search(text)
       \/ FirstList
       \/ \E g \in LibraryGames : OpenGame(g)
       \/ PlayCurrent \/ ChooseCover \/ RemoveCurrent \/ BackToLibrary
       \/ \E c \in calls :
            GameRead(c) \/ ShowDetail(c) \/ MarkPlayed(c) \/ CoverStored(c) \/ CoverChosen(c)
            \/ GameRemoved(c) \/ ListAgain(c)

-----------------------------------------------------------------------------
(* The grid shows the games that match the search, each once and in order,  *)
(* unless a drawing began while another one was waiting for a cover.        *)
GridShowsTheSearch ==
    grid.drawing = {} /\ ~grid.crossed => grid.tiles = Matching(grid.list, grid.search)

(* The details show the game that Play starts and Remove removes, unless    *)
(* another was opened or removed before they were there.                    *)
PlaysWhatItShows ==
    detail.open /\ ~detail.crossed /\ (\A c \in calls : c.kind \notin {"open", "show", "remove", "close"})
        => detail.shown = detail.game.id

(* A record keeps when its game was last played, through covers chosen and  *)
(* removals, unless a call on the game overlapped another (spoiled).        *)
PlaysAreKept ==
    \A g \in Kept \ marks.spoiled : db.record[g].played = marks.plays[g]

(* A stored cover is its game's: removing the game removes it, with the     *)
(* same exception.                                                          *)
CoversAreOwned ==
    \A g \in db.covers \ marks.spoiled :
        (\A c \in calls : c.game # g) => g \in Kept /\ db.record[g].cover

\* The page shows the library as it is, plays what it shows, and keeps its records.
LibraryIsTrue ==
    /\ GridShowsTheSearch
    /\ PlaysWhatItShows
    /\ PlaysAreKept
    /\ CoversAreOwned
=============================================================================
