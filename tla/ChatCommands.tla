---------------------------- MODULE ChatCommands ----------------------------
(***************************************************************************)
(* The commands of the DingTalk service (ding_stream_service): lists of    *)
(* tasks, page by page, the restart of a task by its number on the last    *)
(* list of the conversation, by its name or by its id, and the restart of  *)
(* the latest failed tasks. Messages are handled one at a time; the rows   *)
(* change meanwhile in the web process. What restart_task does to the      *)
(* locks and threads is the matter of TwoManagers; here it changes a row.  *)
(***************************************************************************)
EXTENDS SortedSets, Sequences, SequencesExt

CONSTANTS
  Chat,        \* conversations
  ListedTask,  \* task ids
  NameOf,      \* the name of a task
  PerPage,     \* page sizes that are asked for
  BatchLimit,  \* the most failed tasks one command restarts
  NoList,      \* nothing cached for a conversation
  NoChat       \* no conversation

ASSUME ChatAssumption ==
  /\ IsFiniteSet(ListedTask)
  /\ PerPage \subseteq Nat \ {0}
  /\ BatchLimit \in Nat \ {0}
  /\ NoChat \notin Chat

VARIABLES
  rowState,   \* status of a row; completed and cancelled rows are listed and
              \* restarted as pending ones are
  recent,     \* the tasks, the one updated last at the front
  listCache,  \* _list_cache: the tasks of the last list, and whether it is young
  screen,     \* bookkeeping: the last list as the chat shows it
  numbered,   \* bookkeeping: the last restart by number, and the task it took
  todo        \* failed tasks a batch restart has read and not yet come to

chatVars == <<rowState, recent, listCache, screen, numbered, todo>>

RowState == {"running", "pending", "error", "gone"}
NoAnswer == [chat |-> NoChat, number |-> 0, took |-> {}]
Number   == 1..Len(recent)

ChatTypeOK ==
  /\ rowState \in [ListedTask -> RowState]
  /\ \A c \in Chat : listCache[c] # NoList =>
       /\ listCache[c].young \in BOOLEAN
       /\ ToSet(listCache[c].tasks) \subseteq ListedTask
  /\ ToSet(recent) = ListedTask /\ IsInjective(recent)
  /\ ToSet(todo) \subseteq ListedTask
  /\ numbered.took \subseteq ListedTask

ChatInit ==
  /\ rowState = [t \in ListedTask |-> "error"]
  /\ recent \in SetToSeqs(ListedTask)
  /\ listCache = [c \in Chat |-> NoList]
  /\ screen = [c \in Chat |-> <<>>]
  /\ numbered = NoAnswer
  /\ todo = <<>>

-----------------------------------------------------------------------------
(* Lists. *)

StatusGroup(which) ==
  IF which = "running" THEN {"running"} ELSE {"pending", "error"}

\* Rows of a status, the ones updated last first.
Ordered(states) == RowsAt(recent, {i \in DOMAIN recent : rowState[recent[i]] \in states})

\* order_by(updated_at desc).offset(...).limit(...)
PageOf(tasks, page, size) ==
  SubSeq(tasks, (page - 1) * size + 1,
         IF page * size < Len(tasks) THEN page * size ELSE Len(tasks))

\* The reply counts the items through all pages.
Numbered(tasks, page, size) ==
  [i \in DOMAIN tasks |-> [number |-> (page - 1) * size + i, task |-> tasks[i]]]

OneCache(c) == CHOOSE d \in Chat : TRUE   \* a mutant: one list for all
CacheKey(c) == c

CacheList(c, tasks) ==
  listCache' = [listCache EXCEPT ![CacheKey(c)] = [tasks |-> tasks, young |-> TRUE]]

\* The cache keeps the page, the reply shows it.
ListCommand(c) ==
  /\ todo = <<>>
  /\ \E which \in {"running", "stopped"}, size \in PerPage, page \in 1..Len(recent) :
       LET tasks == PageOf(Ordered(StatusGroup(which)), page, size) IN
       /\ CacheList(c, tasks)
       /\ screen' = [screen EXCEPT ![c] = Numbered(tasks, page, size)]
  /\ numbered' = NoAnswer
  /\ UNCHANGED <<rowState, recent, todo>>

\* Ten minutes after a list.
ListGrowsOld(c) ==
  /\ listCache[c] # NoList
  /\ listCache' = [listCache EXCEPT ![c].young = FALSE]
  /\ screen' = [screen EXCEPT ![c] = <<>>]
  /\ numbered' = NoAnswer
  /\ UNCHANGED <<rowState, recent, todo>>

-----------------------------------------------------------------------------
(* Restarts. *)

Touch(t) == recent' = <<t>> \o RowsAt(recent, {i \in DOMAIN recent : recent[i] # t})

\* restart_task: a task that is gone is refused, and so is one that runs in
\* this process; any other becomes pending, and running if it can be started.
Restart(t) ==
  \/ rowState[t] \in {"gone", "running"} /\ UNCHANGED <<rowState, recent>>
  \/ /\ rowState[t] # "gone"
     /\ \E s \in {"running", "pending"} : rowState' = [rowState EXCEPT ![t] = s]
     /\ Touch(t)

\* "restart number n" looks at the last list of the conversation: with none,
\* with an old one or with a shorter one it answers that there is no such item.
NumberCommand(c, n) ==
  LET cached == listCache[CacheKey(c)]
      found  == cached # NoList /\ cached.young /\ n \in DOMAIN cached.tasks
      old    == cached # NoList /\ ~cached.young IN
  /\ todo = <<>>
  /\ IF found THEN Restart(cached.tasks[n]) ELSE UNCHANGED <<rowState, recent>>
  /\ numbered' = [chat |-> c, number |-> n,
                  took |-> IF found THEN {cached.tasks[n]} ELSE {}]
  /\ listCache' = IF old THEN [listCache EXCEPT ![CacheKey(c)] = NoList] ELSE listCache
  /\ UNCHANGED <<screen, todo>>

\* By name: none and more than one are refused. An id is looked up as it is.
NameCommand ==
  /\ todo = <<>>
  /\ \E t \in ListedTask :
       /\ \A u \in ListedTask \ {t} : rowState[u] # "gone" => NameOf[u] # NameOf[t]
       /\ Restart(t)
  /\ numbered' = NoAnswer
  /\ UNCHANGED <<listCache, screen, todo>>

IdCommand ==
  /\ todo = <<>>
  /\ \E t \in ListedTask : Restart(t)
  /\ numbered' = NoAnswer
  /\ UNCHANGED <<listCache, screen, todo>>

\* "restart failed tasks": the latest of them, read once, ...
BatchRead ==
  /\ todo = <<>>
  /\ todo' = PageOf(Ordered({"error"}), 1, BatchLimit)
  /\ numbered' = NoAnswer
  /\ UNCHANGED <<rowState, recent, listCache, screen>>

\* ... and one after the other, the next one also when one is refused.
BatchNext ==
  /\ todo # <<>>
  /\ Restart(Head(todo))
  /\ todo' = Tail(todo)
  /\ UNCHANGED <<listCache, screen, numbered>>

\* Only a refusal is caught task by task: another failure ends the command.
BatchAborts ==
  /\ todo # <<>>
  /\ todo' = <<>>
  /\ UNCHANGED <<rowState, recent, listCache, screen, numbered>>

\* The web process runs, ends or deletes a task at any time.
WebChanges ==
  /\ \E t \in ListedTask :
       /\ rowState[t] # "gone"
       /\ \E s \in RowState \ {rowState[t]} : rowState' = [rowState EXCEPT ![t] = s]
       /\ Touch(t)
  /\ numbered' = NoAnswer
  /\ UNCHANGED <<listCache, screen, todo>>

ChatNext ==
  \/ \E c \in Chat :
       ListCommand(c) \/ ListGrowsOld(c) \/ \E n \in Number : NumberCommand(c, n)
  \/ NameCommand \/ IdCommand \/ BatchRead \/ BatchNext \/ BatchAborts
  \/ WebChanges

ChatSpec == ChatInit /\ [][ChatNext]_chatVars

-----------------------------------------------------------------------------
\* "Restart number N restarts entry N of the last query's result" (README of
\* the service): of the last list of the same conversation, whatever happened
\* since to the rows, to their order or to another conversation's list; and
\* nothing is restarted when that list is older than ten minutes or has no such
\* entry. On a first page the entry's place is the number shown beside it; a
\* later page shows numbers that go on counting and that no command accepts.
NthOfLastList ==
  numbered.chat \in Chat =>
    LET shown == screen[numbered.chat] IN
    numbered.took = {shown[n].task : n \in DOMAIN shown \cap {numbered.number}}
=============================================================================
