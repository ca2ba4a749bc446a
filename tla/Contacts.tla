------------------------------ MODULE Contacts ------------------------------
(***************************************************************************)
(* The contact screen of the Android app (ContactsActivity.kt) over the    *)
(* contact operations of BaleSignaling (signaling.rs, contacts.rs) and the *)
(* name cache of the WebSocket client (ws.rs).                             *)
(*                                                                         *)
(* The screen runs on the main thread.  Each of its operations is a        *)
(* coroutine of the bag ops, that  goes through the stages                  *)
(*    launched  posted to the main thread,                                 *)
(*    called    the native call is a task of the tokio runtime,            *)
(*    asked     its request is on its way to the Bale server,              *)
(*    answered  the server's reply, or an error, is on its way back,       *)
(*    returned  the native call is over and the coroutine posted again,    *)
(* so any two operations interleave between those stages.  The one data    *)
(* abstraction is a user's: the uid stands for the whole entity, and a     *)
(* name for the uid it belongs to.                                         *)
(***************************************************************************)
EXTENDS Naturals, Sequences, FiniteSets, Bags, BagsExt

CONSTANTS
    Users,      \* the Bale users
    Phoning,    \* those who call this phone while it is a server
    PageSize,   \* PAGE_SIZE, the rows of one page
    MaxOps,     \* bound: operations started
    Null        \* Kotlin's null and Rust's None

VARIABLES
    contacts,   \* the contact list the Bale server keeps (external)
    cache,      \* BaleSignaling.contact_cache
    names,      \* WsClient.name_cache: absent, or a name, or a cached None
    ops,        \* the bag of the operations in flight
    started,    \* how many the user started
    screen,     \* the activity: rows, nextCursor, searchMode, loadingPage, items
    manage,     \* the activity's mode: "manage" or "pick"
    history     \* what happened to the operations so far, for the properties

contactVars == <<contacts, cache, names, ops, started, screen, manage, history>>

Absent   == "absent"      \* no entry in name_cache
Listing  == {"first", "next"}
Changing == {"search", "add", "remove"}
Naming   == {"caller", "row", "hit"}

InFlight(K) == \E o \in BagToSet(ops) : o.kind \in K
Listed(s)   == {s[i] : i \in DOMAIN s}
PeersOf(rows) == [i \in DOMAIN rows |-> rows[i].peer]

Least(a, b) == IF a <= b THEN a ELSE b

(***************************************************************************)
(* The rows the adapter shows: it holds the activity's own list, not a     *)
(* copy of it, after submit(rows), and a list of its own after a search.   *)
(***************************************************************************)
Shown == IF screen.own THEN screen.items ELSE screen.rows

Fresh == [rows |-> <<>>, next |-> Null, searching |-> FALSE, loading |-> FALSE,
          own |-> FALSE, items |-> <<>>]

NewOp(kind, peer, row) ==
    [kind |-> kind, at |-> "launched", peer |-> peer, row |-> row, cursor |-> Null,
     reply |-> Null, ok |-> TRUE, orphan |-> FALSE, lost |-> FALSE]

(* Something the screen shows may be out of date once a listing and a      *)
(* change were in flight together, or a change was made whose reply was    *)
(* lost; and a list may be short once a listing failed.                    *)
Mixed(os) ==
    \/ \E l, m \in BagToSet(os) : l.kind \in Listing /\ m.kind \in Changing
    \/ \E o \in BagToSet(os) : o.lost

Short(os) == \E o \in BagToSet(os) : o.kind \in Listing /\ ~o.ok

Remember == history' = [apart    |-> history.apart /\ ~Mixed(ops'),
                        answered |-> history.answered /\ ~Short(ops')]

(* scope.launch posts a coroutine; a finished one is gone.                 *)
Launch(os, op) == BagAdd(os, op)
Without(op)    == BagRemove(ops, op)
Move(op, to)   == ops' = BagAdd(Without(op), to)

(***************************************************************************)
(* onCreate opens the screen and asks for the first page.                  *)
(***************************************************************************)
Init ==
    /\ contacts \in {s \in UNION {[1..n -> Users] : n \in 0..Cardinality(Users)} :
                        Cardinality(Listed(s)) = Len(s)}
    /\ cache = Null
    /\ names = [u \in Users |-> Absent]
    /\ ops = SetToBag({NewOp("first", Null, 0)})
    /\ started = 1
    /\ screen = Fresh
    /\ manage \in BOOLEAN
    /\ history = [apart |-> TRUE, answered |-> TRUE]

MayStart == started < MaxOps /\ started' = started + 1

(***************************************************************************)
(* What the user does.                                                     *)
(***************************************************************************)

(* onScrolled near the end of the list, and loadNextPage's own guard.      *)
MayLoadNext == ~screen.loading /\ screen.next # Null /\ ~screen.searching

loadNextPage ==
    /\ MayLoadNext /\ MayStart
    /\ screen' = [screen EXCEPT !.loading = TRUE]
    /\ ops' = Launch(ops, NewOp("next", Null, 0))
    /\ UNCHANGED <<contacts, cache, names, manage>>
    /\ Remember

enterSearchMode ==
    /\ ~manage /\ ~screen.searching
    /\ screen' = [screen EXCEPT !.searching = TRUE, !.own = TRUE, !.items = <<>>]
    /\ UNCHANGED <<contacts, cache, names, ops, started, manage>>
    /\ Remember

exitSearchMode ==
    /\ screen.searching
    /\ screen' = [screen EXCEPT !.searching = FALSE, !.own = FALSE, !.items = <<>>]
    /\ UNCHANGED <<contacts, cache, names, ops, started, manage>>
    /\ Remember

(* A phone number is looked up: in the search box of the picker, or in the *)
(* "Add Contact" dialog of the manager.                                    *)
search(u) ==
    /\ screen.searching /\ MayStart
    /\ ops' = Launch(ops, NewOp("search", u, 0))
    /\ UNCHANGED <<contacts, cache, names, screen, manage>>
    /\ Remember

doAddByPhone(u) ==
    /\ manage /\ MayStart
    /\ ops' = Launch(ops, NewOp("add", u, 0))
    /\ UNCHANGED <<contacts, cache, names, screen, manage>>
    /\ Remember

(* The Remove button of a row that is shown.                               *)
doRemove(i) ==
    /\ manage /\ MayStart
    /\ ops' = Launch(ops, NewOp("remove", Shown[i].peer, 0))
    /\ UNCHANGED <<contacts, cache, names, screen, manage>>
    /\ Remember

(* The screen is left and opened again: onDestroy cancels the coroutines,  *)
(* whose native calls go on without them, and onCreate starts over.        *)
Reopen ==
    /\ MayStart
    /\ screen' = Fresh
    /\ LET native == {o \in BagToSet(ops) : o.at \notin {"launched", "returned"}}
       IN  ops' = Launch(BagOfAll(LAMBDA o : [o EXCEPT !.orphan = TRUE],
                                  [o \in native |-> ops[o]]),
                         NewOp("first", Null, 0))
    /\ UNCHANGED <<contacts, cache, names, manage>>
    /\ Remember

(* The server service names a caller while the screen is open.             *)
NameCaller(u) ==
    /\ MayStart
    /\ ops' = Launch(ops, [NewOp("caller", u, 0) EXCEPT !.at = "called", !.orphan = TRUE])
    /\ UNCHANGED <<contacts, cache, names, screen, manage>>
    /\ Remember

(***************************************************************************)
(* The native calls.                                                       *)
(***************************************************************************)

(* populate_names, also through intern_peer: display_name is never empty.  *)
Populated(us) == [u \in Users |-> IF u \in us THEN u ELSE names[u]]

(* list_contacts cuts its page out of the full list: the cursor is an      *)
(* offset into a list that may have changed since it was handed out.       *)
Start(cursor) == IF cursor = Null THEN 0 ELSE cursor

Slice(list, cursor) ==
    <<Least(Start(cursor), Len(list)), Least(Start(cursor) + PageSize, Len(list))>>

Page(list, cursor) ==
    LET cut == Slice(list, cursor)
    IN  [peers |-> SubSeq(list, cut[1] + 1, cut[2]),
         next  |-> IF cut[2] < Len(list) THEN cut[2] ELSE Null]

Empty == [peers |-> <<>>, next |-> Null]

(* The native call is over: its coroutine is posted again, if it still     *)
(* exists.                                                                 *)
Return(o, reply) ==
    IF o.orphan THEN ops' = Without(o)
    ELSE Move(o, [o EXCEPT !.at = "returned", !.reply = reply])

(* A coroutine's first run, on the main thread: loadNextPage's reads the   *)
(* cursor only now.                                                        *)
Begin(o) ==
    /\ o.at = "launched" /\ o.kind \notin {"search", "add"}
    /\ Move(o, [o EXCEPT !.at = "called",
                         !.cursor = IF o.kind = "next" THEN screen.next ELSE Null])
    /\ UNCHANGED <<contacts, cache, names, started, screen, manage>>
    /\ Remember

(* A lookup by phone reads nothing of ours before its request.             *)
import_contact_by_phone(o) ==
    /\ o.at = "launched" /\ o.kind \in {"search", "add"}
    /\ Move(o, [o EXCEPT !.at = "asked"])
    /\ UNCHANGED <<contacts, cache, names, started, screen, manage>>
    /\ Remember

(* list_contacts takes the list from the cache where there is one.         *)
CacheHit(o) ==
    /\ o.at = "called" /\ o.kind \in Listing /\ cache # Null
    /\ LET page == Page(cache, o.cursor)
       IN  /\ Return(o, page)
           /\ names' = Populated(Listed(page.peers))
    /\ UNCHANGED <<contacts, cache, started, screen, manage>>
    /\ Remember

(* fetch_display_name and load_user_name answer from the cache, a cached   *)
(* None included.                                                          *)
NameHit(o) ==
    /\ o.at = "called" /\ o.kind \in Naming /\ names[o.peer] # Absent
    /\ Return(o, names[o.peer])
    /\ UNCHANGED <<contacts, cache, names, started, screen, manage>>
    /\ Remember

(* Otherwise a request goes out.                                           *)
Request(o, ok) ==
    /\ o.at = "called"
    /\ Move(o, [o EXCEPT !.at = "asked", !.ok = ok])
    /\ UNCHANGED <<contacts, cache, names, started, screen, manage>>
    /\ Remember

(* GetContacts fixes the list; LoadUsers, where it is needed, completes    *)
(* the entities of its members.                                            *)
CacheMiss(o) == o.kind \in Listing /\ cache = Null /\ Request(o, TRUE)

NameMiss(o) == o.kind \in Naming /\ names[o.peer] = Absent /\ Request(o, TRUE)

(* remove_contact takes the access hash of the user from the cached list:  *)
(* without it, it sends 0.                                                 *)
remove_contact(o) ==
    o.kind = "remove" /\ Request(o, cache # Null /\ o.peer \in Listed(cache))

(***************************************************************************)
(* The server (external): a listing is its list at this moment, a phone    *)
(* number it knows is added and found, a removal needs the access hash.    *)
(* Any request may fail, before it is executed or after.                   *)
(***************************************************************************)
Added(u) == IF u \in Listed(contacts) THEN {contacts}
            ELSE {<<u>> \o contacts, Append(contacts, u)}

Dropped(u) == SelectSeq(contacts, LAMBDA v : v # u)

Executed(o) ==
    CASE o.kind \in {"search", "add"} -> Added(o.peer)
      [] o.kind = "remove" /\ o.ok -> {Dropped(o.peer)}
      [] OTHER -> {contacts}

Reply(o, list) ==
    CASE o.kind \in Listing           -> {list}
      [] o.kind \in {"search", "add"} -> {<<o.peer>>}
      [] o.kind \in Naming            -> {o.peer, Null}
      [] OTHER                             -> {Null}

Serve(o) ==
    /\ o.at = "asked"
    /\ \E list \in Executed(o) : \E reply \in Reply(o, list) :
          /\ contacts' = list
          /\ Move(o, [o EXCEPT !.at = "answered", !.reply = reply])
    /\ UNCHANGED <<cache, names, started, screen, manage>>
    /\ Remember

Fail(o) ==
    /\ o.at = "asked"
    /\ \E list \in Executed(o) \cup {contacts} :
          /\ contacts' = list
          /\ Move(o, [o EXCEPT !.at = "answered", !.reply = Null, !.ok = FALSE,
                               !.lost = list # contacts])
    /\ UNCHANGED <<cache, names, started, screen, manage>>
    /\ Remember

(***************************************************************************)
(* The reply comes in.                                                     *)
(***************************************************************************)

(* load_full_contact_list names everyone and stores the list.              *)
LandList(o) ==
    /\ o.at = "answered" /\ o.kind \in Listing
    /\ cache' = IF o.ok THEN o.reply ELSE cache
    /\ names' = IF o.ok THEN Populated(Listed(o.reply)) ELSE names
    /\ Return(o, IF o.ok THEN Page(o.reply, o.cursor) ELSE Empty)
    /\ UNCHANGED <<contacts, started, screen, manage>>
    /\ Remember

\* Slip: the cached list is kept.
LandImport_Keeps(o) ==
    /\ o.at = "answered" /\ o.kind \in {"search", "add"}
    /\ names' = IF o.ok THEN Populated(Listed(o.reply)) ELSE names
    /\ Return(o, o.reply)
    /\ UNCHANGED <<contacts, cache, started, screen, manage>>
    /\ Remember

(* search_contact_by_phone drops the cached list: the lookup has added.    *)
LandImport(o) ==
    /\ o.at = "answered" /\ o.kind \in {"search", "add"}
    /\ cache' = IF o.ok THEN Null ELSE cache
    /\ names' = IF o.ok THEN Populated(Listed(o.reply)) ELSE names
    /\ Return(o, o.reply)
    /\ UNCHANGED <<contacts, started, screen, manage>>
    /\ Remember

(* So does remove_contact, if it succeeded.                                *)
LandRemove(o) ==
    /\ o.at = "answered" /\ o.kind = "remove"
    /\ cache' = IF o.ok THEN Null ELSE cache
    /\ Return(o, o.reply)
    /\ UNCHANGED <<contacts, names, started, screen, manage>>
    /\ Remember

(* load_user_name stores what it got, None for an error as well, over what *)
(* a listing may have stored meanwhile.                                    *)
load_user_name(o) ==
    /\ o.at = "answered" /\ o.kind \in Naming
    /\ names' = [names EXCEPT ![o.peer] = o.reply]
    /\ Return(o, o.reply)
    /\ UNCHANGED <<contacts, cache, started, screen, manage>>
    /\ Remember

(***************************************************************************)
(* The coroutines resume on the main thread.                               *)
(***************************************************************************)
Row(u) == [peer |-> u, name |-> IF names[u] = Absent THEN Null ELSE names[u]]
Rows(us) == [i \in DOMAIN us |-> Row(us[i])]

(* kickDisplayNameFetches: one coroutine for every row without a name,     *)
(* which remembers the row by its index.                                   *)
Fetches(rows) == SetToBag({NewOp("row", rows[i].peer, i) :
                              i \in {j \in DOMAIN rows : rows[j].name = Null}})

(* A page is appended to the rows, whatever they are by now; one that      *)
(* failed is an empty page without a cursor.                               *)
ResumePage(o) ==
    /\ o.at = "returned" /\ o.kind \in Listing
    /\ LET rows == screen.rows \o Rows(o.reply.peers)
       IN  /\ screen' = [screen EXCEPT !.rows = rows, !.next = o.reply.next,
                                       !.own = FALSE, !.items = <<>>,
                                       !.loading = @ /\ o.kind # "next"]
           /\ ops' = Without(o) (+) Fetches(rows)
    /\ UNCHANGED <<contacts, cache, names, started, manage>>
    /\ Remember

ResumeSearch(o) ==
    /\ o.at = "returned" /\ o.kind = "search"
    /\ LET found == IF o.reply = Null THEN <<>> ELSE Rows(o.reply)
       IN  /\ screen' = [screen EXCEPT !.own = TRUE, !.items = found]
           /\ ops' = Without(o) (+) SetToBag({NewOp("hit", found[i].peer, i) : i \in DOMAIN found})
    /\ UNCHANGED <<contacts, cache, names, started, manage>>
    /\ Remember

(* After an add, found or not, and after a removal that succeeded,         *)
(* loadFirstPage empties the rows and asks for the first page.             *)
ResumeChange(o) ==
    /\ o.at = "returned" /\ o.kind \in {"add", "remove"}
    /\ IF o.kind = "add" \/ o.ok
       THEN /\ screen' = [screen EXCEPT !.rows = <<>>, !.next = Null,
                                        !.own = FALSE, !.items = <<>>]
            /\ ops' = Launch(Without(o), NewOp("first", Null, 0))
       ELSE /\ screen' = screen
            /\ ops' = Without(o)
    /\ UNCHANGED <<contacts, cache, names, started, manage>>
    /\ Remember

(* The name goes to the row now at the index; past the end it throws.      *)
ResumeName(o) ==
    /\ o.at = "returned" /\ o.kind = "row"
    /\ screen' = IF o.reply # Null /\ o.row \in DOMAIN screen.rows
                 THEN [screen EXCEPT !.rows[o.row].name = o.reply]
                 ELSE screen
    /\ ops' = Without(o)
    /\ UNCHANGED <<contacts, cache, names, started, manage>>
    /\ Remember

(* updateName checks the index, and gives the adapter a list of its own.   *)
ResumeHit(o) ==
    /\ o.at = "returned" /\ o.kind = "hit"
    /\ LET i == o.row
       IN  screen' = IF o.reply # Null /\ i \in DOMAIN Shown /\ Shown[i].name # o.reply
                     THEN [screen EXCEPT !.own = TRUE,
                                         !.items = [Shown EXCEPT ![i].name = o.reply]]
                     ELSE screen
    /\ ops' = Without(o)
    /\ UNCHANGED <<contacts, cache, names, started, manage>>
    /\ Remember

User ==
    \/ loadNextPage \/ enterSearchMode \/ exitSearchMode \/ Reopen
    \/ \E u \in Users : search(u) \/ doAddByPhone(u)
    \/ \E u \in Phoning : NameCaller(u)
    \/ \E i \in DOMAIN Shown : doRemove(i)

Native == \E o \in BagToSet(ops) :
    \/ CacheHit(o) \/ CacheMiss(o) \/ NameHit(o) \/ NameMiss(o) \/ remove_contact(o)
    \/ Serve(o) \/ Fail(o)
    \/ LandList(o) \/ LandImport(o) \/ LandRemove(o) \/ load_user_name(o)

Main == \E o \in BagToSet(ops) :
    \/ Begin(o) \/ import_contact_by_phone(o) \/ ResumePage(o) \/ ResumeSearch(o)
    \/ ResumeChange(o) \/ ResumeName(o) \/ ResumeHit(o)

Next == User \/ Native \/ Main

Spec == Init /\ [][Next]_contactVars

-----------------------------------------------------------------------------

Ready(o) == \/ o.kind \in Listing /\ o.at = "called" /\ cache # Null
            \/ o.kind \in Listing /\ o.at = "answered" /\ o.ok

(* The slice list_contacts takes for a cursor lies inside the list it has, *)
(* however the list changed since the cursor was handed out: a slice past  *)
(* the end of the Vec is a panic (signaling.rs:472).                       *)
SlicesInRange ==
    \A o \in BagToSet(ops) : Ready(o) =>
        LET list == IF o.at = "called" THEN cache ELSE o.reply
            cut  == Slice(list, o.cursor)
        IN  cut[1] <= cut[2] /\ cut[2] <= Len(list)

(* With no change in flight the cached list is the server's, the rows of   *)
(* the manage screen are its beginning, without a repetition or a gap, and *)
(* all of it once there is no further page and no listing failed.          *)
Agrees ==
    /\ cache \in {Null, contacts}
    /\ manage => /\ Len(screen.rows) <= Len(contacts)
                 /\ PeersOf(screen.rows) = SubSeq(contacts, 1, Len(screen.rows))
                 /\ history.answered /\ screen.next = Null /\ ~InFlight(Listing) =>
                        Len(screen.rows) = Len(contacts)

(* The pages add up: every slice is in range whatever overlaps what, and   *)
(* as long as no listing overlapped a change and no reply to a change was  *)
(* lost, the cache and the screen agree with the server (the invalidations *)
(* in search_contact_by_phone and remove_contact, the cursor, loadingPage, *)
(* and loadFirstPage after a change).                                      *)
PagesAddUp == SlicesInRange /\ (history.apart /\ ~InFlight(Changing) => Agrees)

(* What load_full_contact_list says of its cache (signaling.rs:355-359):    *)
(* it serves until an add or a removal clears it.  A listing that was asked *)
(* before the change and lands after it puts the old list back.             *)
CacheFresh == ~InFlight(Changing \cup Listing) => cache \in {Null, contacts}

(* A fetched name goes to a row that exists: kickDisplayNameFetches keeps   *)
(* the index of the row across the call, while loadFirstPage empties them.  *)
NamesInRange ==
    \A o \in BagToSet(ops) :
        o.at = "returned" /\ o.kind = "row" /\ o.reply # Null => o.row \in DOMAIN screen.rows
=============================================================================
