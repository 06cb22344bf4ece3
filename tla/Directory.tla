------------------------------ MODULE Directory ------------------------------
(***************************************************************************)
(* The directory of conversations: a worker downloads the lists of friends,*)
(* groups and recent contacts, joins them into a snapshot, and the newest  *)
(* snapshot is frozen to a gap when the gap is created.                    *)
(*                                                                         *)
(*   application/directory_sync.rs, directory_service.rs,                  *)
(*   domain/directory.rs, adapters/napcat_directory.rs,                    *)
(*   repo/mysql_directory.rs, mysql_continuity.rs                          *)
(*                                                                         *)
(* One account.  The flags of DirectoryEvidence are left out: a list that  *)
(* fails ends the sync, so that no snapshot is ever written with one set.  *)
(* Names and boundaries of a conversation are data nothing here decides on.*)
(***************************************************************************)
EXTENDS Integers, Sequences, FiniteSets

CONSTANTS
    Workers,       \* one per process; two while a process is replaced
    Gaps,
    OldGaps,       \* created before a directory was frozen with a gap
    Freezers,      \* callers of freeze_for_gap
    FriendLists,   \* what get_friend_list may return: sequences of ids
    GroupLists,    \* what get_group_list may return
    RecentLists,   \* what get_recent_contact may return: <<chat type, id>>
    max_entries, snapshot_ttl,
    None,
    MaxSnapshots,  \* bound: snapshots written
    MaxNow,        \* bound: clock
    MaxFaults      \* bound: failed or late requests, kills

ASSUME DirectoryAssumption ==
    /\ {MaxSnapshots, MaxNow, MaxFaults} \subseteq Nat
    /\ max_entries \in Nat \ {0} /\ snapshot_ttl \in Nat \ {0}
    /\ OldGaps \subseteq Gaps /\ None \notin 0..MaxSnapshots
    /\ FriendLists \subseteq Seq(Nat) /\ GroupLists \subseteq Seq(Nat)
    /\ RecentLists \subseteq Seq(STRING \X Nat)

VARIABLES
    now,
    snapshots,  \* secretary_directory_snapshots and _scopes, by snapshot_id, each with
                \* what the lists it was made of had named
    frozen,     \* secretary_directory_gap_freeze: gap -> snapshot, 0 for NULL
    sync,       \* the sync in progress in each worker
    freezer,    \* the call of freeze_for_gap in progress
    faults

vars == <<now, snapshots, frozen, sync, freezer, faults>>

NoSync == [pc |-> "idle", at |-> 0, friends |-> <<>>, groups |-> <<>>, recent |-> <<>>]
NoCall == [pc |-> "idle", gap |-> None, read |-> 0, got |-> 0]

Init ==
    /\ now = 0 /\ snapshots = <<>>
    /\ frozen = [g \in Gaps |-> None]
    /\ sync = [w \in Workers |-> NoSync]
    /\ freezer = [f \in Freezers |-> NoCall]
    /\ faults = 0

Tick == /\ now < MaxNow /\ now' = now + 1
        /\ UNCHANGED <<snapshots, frozen, sync, freezer, faults>>

-----------------------------------------------------------------------------
(* aggregate_scopes *)

IdsOf(list) == {list[i] : i \in DOMAIN list}
Taken(list, n) == SubSeq(list, 1, IF n < Len(list) THEN n ELSE Len(list))

(* push_scope: one scope of a kind and an id. *)
ConversationKind(chat) == IF chat = "group" THEN "group" ELSE "private"
Scope(scope, kind, id) == [scope |-> scope, kind |-> kind, id |-> id]

FirstOf(list, i) == \A j \in 1..(i - 1) : list[j][2] # list[i][2]

(* Mutant: the entries of the lists are counted, repeated ones too. *)
Aggregated_Raw(friends, groups, recent) ==
    LET known == IdsOf(Taken(friends, max_entries))
        joined == IdsOf(Taken(groups, max_entries - Cardinality(known)))
        rest == Taken(recent, max_entries - Len(friends) - Len(groups) - Len(recent))
    IN {Scope("friend", "private", id) : id \in known}
       \cup {Scope("group", "group", id) : id \in joined}
       \cup {Scope("recent_unconfirmed", ConversationKind(rest[i][1]), rest[i][2]) :
                i \in {j \in DOMAIN rest : /\ rest[j][2] \notin known \cup joined
                                           /\ FirstOf(rest, j)}}

(* Friends, then groups, then the contacts that are neither, and no more    *)
(* than max_entries of all.                                                 *)
Aggregated(friends, groups, recent) ==
    LET known == IdsOf(Taken(friends, max_entries))
        joined == IdsOf(Taken(groups, max_entries - Cardinality(known)))
        rest == Taken(recent, max_entries - Cardinality(known) - Cardinality(joined))
    IN {Scope("friend", "private", id) : id \in known}
       \cup {Scope("group", "group", id) : id \in joined}
       \cup {Scope("recent_unconfirmed", ConversationKind(rest[i][1]), rest[i][2]) :
                i \in {j \in DOMAIN rest : /\ rest[j][2] \notin known \cup joined
                                           /\ FirstOf(rest, j)}}

(* What the lists named, as conversations: friends and groups, and contacts.*)
Members(friends, groups) ==
    {<<"private", id>> : id \in IdsOf(friends)} \cup {<<"group", id>> : id \in IdsOf(groups)}
Contacts(recent) == {<<ConversationKind(e[1]), e[2]>> : e \in IdsOf(recent)}

(* A list is longer than what the lists before it leave of max_entries; a   *)
(* number that is named twice counts once in what is before.                *)
Cut(friends, groups, recent) ==
    LET known == Cardinality(IdsOf(friends))
        joined == Cardinality(IdsOf(groups))
    IN \/ Len(friends) > max_entries
       \/ known + Len(groups) > max_entries
       \/ known + joined + Len(recent) > max_entries

derive_status(scopes) == IF scopes = {} THEN "uncertain" ELSE "known_scopes_complete"

-----------------------------------------------------------------------------
(* sync_once *)

Valid(t) == \E i \in DOMAIN snapshots : snapshots[i].created >= t - snapshot_ttl

(* load_latest_snapshot: created_at_unix_secs DESC, snapshot_id DESC.  The  *)
(* ids are random: of two snapshots of one second, either is the newest.    *)
Newest ==
    IF snapshots = <<>> THEN {0}
    ELSE {i \in DOMAIN snapshots : \A j \in DOMAIN snapshots : snapshots[j].created <= snapshots[i].created}

(* A sync within the time to live of a snapshot returns that one. *)
BeginSync(w) ==
    /\ sync[w].pc = "idle" /\ ~Valid(now)
    /\ sync' = [sync EXCEPT ![w] = [NoSync EXCEPT !.pc = "friends", !.at = now]]
    /\ UNCHANGED <<now, snapshots, frozen, freezer, faults>>

ListFriends(w) ==
    /\ sync[w].pc = "friends"
    /\ \E list \in FriendLists :
          sync' = [sync EXCEPT ![w].pc = "groups", ![w].friends = list]
    /\ UNCHANGED <<now, snapshots, frozen, freezer, faults>>

ListGroups(w) ==
    /\ sync[w].pc = "groups"
    /\ \E list \in GroupLists :
          sync' = [sync EXCEPT ![w].pc = "recent", ![w].groups = list]
    /\ UNCHANGED <<now, snapshots, frozen, freezer, faults>>

ListRecentContacts(w) ==
    /\ sync[w].pc = "recent"
    /\ \E list \in RecentLists :
          sync' = [sync EXCEPT ![w].pc = "save", ![w].recent = list]
    /\ UNCHANGED <<now, snapshots, frozen, freezer, faults>>

(* snapshot_directory: one transaction. *)
SnapshotDirectory(w) ==
    LET s == sync[w]
        scopes == Aggregated(s.friends, s.groups, s.recent)
    IN /\ s.pc = "save" /\ Len(snapshots) < MaxSnapshots
       /\ snapshots' = Append(snapshots,
             [created |-> s.at, status |-> derive_status(scopes), scopes |-> scopes,
              members |-> Members(s.friends, s.groups), contacts |-> Contacts(s.recent),
              cut |-> Cut(s.friends, s.groups, s.recent)])
       /\ sync' = [sync EXCEPT ![w] = NoSync]
       /\ UNCHANGED <<now, frozen, freezer, faults>>

(* A list that is late, refused, too large or unreadable, the deadline of   *)
(* the sync, a refused write, a shutdown: nothing is written, and the       *)
(* worker tries again after a while.                                        *)
SyncFails(w) ==
    /\ sync[w].pc # "idle" /\ faults < MaxFaults
    /\ sync' = [sync EXCEPT ![w] = NoSync] /\ faults' = faults + 1
    /\ UNCHANGED <<now, snapshots, frozen, freezer>>

-----------------------------------------------------------------------------
(* Freezing *)

(* ON DUPLICATE KEY UPDATE gap_id = gap_id *)
Freeze(g, snapshot) == IF frozen[g] = None THEN [frozen EXCEPT ![g] = snapshot] ELSE frozen

(* freeze_directory_snapshot_for_gap, in the transaction that creates the gap. *)
CreateGap(g) ==
    /\ frozen[g] = None /\ g \notin OldGaps
    /\ \E i \in Newest : frozen' = Freeze(g, i)
    /\ UNCHANGED <<now, snapshots, sync, freezer, faults>>

(* freeze_for_gap reads the newest snapshot, *)
ReadLatest(f, g) ==
    /\ freezer[f].pc = "idle" /\ snapshots # <<>>
    /\ frozen[g] # None \/ g \in OldGaps
    /\ \E i \in Newest :
          freezer' = [freezer EXCEPT ![f] = [pc |-> "write", gap |-> g, read |-> i, got |-> 0]]
    /\ UNCHANGED <<now, snapshots, frozen, sync, faults>>

(* writes it if nothing is frozen, *)
FreezeForGap(f) ==
    LET call == freezer[f]
    IN /\ call.pc = "write"
       /\ frozen' = Freeze(call.gap, call.read)
       /\ freezer' = [freezer EXCEPT ![f].pc = "load"]
       /\ UNCHANGED <<now, snapshots, sync, faults>>

(* Mutant: the caller is told what it read. *)
LoadFrozen_Read(f) ==
    LET call == freezer[f]
    IN /\ call.pc = "load"
       /\ freezer' = [freezer EXCEPT ![f].pc = "done", ![f].got = call.read]
       /\ UNCHANGED <<now, snapshots, frozen, sync, faults>>

(* and reads back what is (load_frozen_for_gap). *)
LoadFrozen(f) ==
    LET call == freezer[f]
    IN /\ call.pc = "load"
       /\ freezer' = [freezer EXCEPT ![f].pc = "done", ![f].got = frozen[call.gap]]
       /\ UNCHANGED <<now, snapshots, frozen, sync, faults>>

Return(f) ==
    /\ freezer[f].pc = "done"
    /\ freezer' = [freezer EXCEPT ![f] = NoCall]
    /\ UNCHANGED <<now, snapshots, frozen, sync, faults>>

-----------------------------------------------------------------------------
Sync(w) == BeginSync(w) \/ ListFriends(w) \/ ListGroups(w) \/ ListRecentContacts(w)
           \/ SnapshotDirectory(w)

Next ==
    \/ Tick
    \/ \E w \in Workers : Sync(w) \/ SyncFails(w)
    \/ \E g \in Gaps : CreateGap(g) \/ \E f \in Freezers : ReadLatest(f, g)
    \/ \E f \in Freezers : FreezeForGap(f) \/ LoadFrozen(f) \/ Return(f)

Spec == Init /\ [][Next]_vars

(* The worker scans for ever, and every wait of it ends. *)
FairSpec == Spec /\ \A w \in Workers : WF_vars(Sync(w))

-----------------------------------------------------------------------------
Ids == UNION {IdsOf(list) : list \in FriendLists \cup GroupLists}
       \cup {e[2] : e \in UNION {IdsOf(list) : list \in RecentLists}}

(* A frozen snapshot exists, and no scope is in a snapshot twice.             *)
TypeOK ==
    /\ now \in 0..MaxNow /\ faults \in 0..MaxFaults
    /\ Len(snapshots) <= MaxSnapshots
    /\ \A i \in DOMAIN snapshots :
          /\ snapshots[i].created \in 0..MaxNow
          /\ snapshots[i].status \in {"uncertain", "known_scopes_complete"}
          /\ snapshots[i].scopes \subseteq
                [scope : {"friend", "group", "recent_unconfirmed"},
                 kind : {"private", "group"}, id : Ids]
    /\ \A g \in Gaps : frozen[g] \in {None} \cup 0..Len(snapshots)
    /\ \A w \in Workers : sync[w].pc \in {"idle", "friends", "groups", "recent", "save"}
    /\ \A f \in Freezers : freezer[f].pc \in {"idle", "write", "load", "done"}

(* A snapshot that calls the known conversations complete, of lists that     *)
(* were not cut, has every friend and every group, and every contact unless  *)
(* its number is in it as another conversation                               *)
(* (DirectoryStatus::KnownScopesComplete, aggregate_scopes).  Numbers that   *)
(* are named again take no room from what follows.                           *)
CompleteHoldsAll ==
    \A i \in DOMAIN snapshots :
        LET s == snapshots[i] IN
        s.status = "known_scopes_complete" /\ ~s.cut =>
            /\ s.members \subseteq {<<e.kind, e.id>> : e \in s.scopes}
            /\ \A c \in s.contacts : \E e \in s.scopes : e.id = c[2]

(* What the word says without those exceptions; false.                       *)
CompleteNamesAll ==
    \A i \in DOMAIN snapshots :
        LET s == snapshots[i] IN
        s.status = "known_scopes_complete" =>
            s.members \cup s.contacts \subseteq {<<e.kind, e.id>> : e \in s.scopes}

(* The directory a gap was created with is the directory every reader gets,  *)
(* though syncs go on: the first freeze wins, NULL too (freeze_for_gap,      *)
(* freeze_directory_snapshot_for_gap).                                       *)
FrozenForGood ==
    [][\A g \in Gaps : frozen[g] # None => frozen'[g] = frozen[g]]_vars

(* A caller of freeze_for_gap is told what is frozen, not what it read.      *)
FreezersAgree ==
    \A f \in Freezers : freezer[f].pc = "done" => freezer[f].got = frozen[freezer[f].gap]

(* A directory past its time to live is downloaded again, once the source    *)
(* answers: no failure is for ever (run_worker).                             *)
Refreshed == ~Valid(now) ~> Valid(now)
===============================================================================
