---------------------------- MODULE Participants ----------------------------
(***************************************************************************)
(* What the secretary says of a person: the names, cards and aliases that  *)
(* messages carry are kept in a bounded profile and in one observation per *)
(* group, and are shown as long as those messages may be used that the row *)
(* lists and, for a name and a card, the one that brought it.              *)
(*                                                                         *)
(*   repo/mysql_inbound.rs (the writers), repo/mysql_memory.rs (what a     *)
(*   restriction invalidates), repo/mysql_retriever.rs (the readers)       *)
(*                                                                         *)
(* One account and one person.  An event is numbered by the order of its   *)
(* insert.  content_mode of a message is always `normal`: only the mode of *)
(* its conversation restricts it.  Rows with current = 0 are read by       *)
(* nobody and left out.                                                    *)
(***************************************************************************)
EXTENDS Naturals, Sequences

CONSTANTS Conversations,
          Groups,        \* the conversations of kind `group`
          Names,         \* nicknames; Empty is the empty string
          Cards,         \* those of them that are used as group cards
          Empty,
          MaxSources,    \* MAX_PROFILE_SOURCE_EVENTS
          MaxAliases,    \* MAX_PARTICIPANT_ALIASES
          MaxEvents      \* bound: messages stored

Modes == {"normal", "local_only", "envelope_only", "never_long_term"}
Events == 1..MaxEvents

(* What the constants are to satisfy; an instance assumes it. *)
ParticipantAssumption ==
    /\ Groups \subseteq Conversations /\ Empty \in Cards /\ Cards \subseteq Names
    /\ MaxSources \in Nat \ {0} /\ MaxAliases \in Nat \ {0} /\ MaxEvents \in Nat

VARIABLES
    stored,    \* the messages: conversation, nickname and group card
    early,     \* messages that will be stored recalled: their notice came first
    recalled,  \* events with an applied tombstone
    mode,      \* memory_mode of a conversation
    profile,   \* the row of secretary_participant_profiles with current = 1
    obs        \* secretary_participant_conversation_observations, by conversation

messages == <<stored, early, recalled>>
vars == <<messages, mode, profile, obs>>

NoProfile == [name |-> Empty, aliases |-> <<>>, established |-> 0,
              sources |-> <<>>, invalidated |-> FALSE]
NoObservation == [card |-> Empty, established |-> 0, sources |-> <<>>, invalidated |-> FALSE]

Init ==
    /\ stored = <<>> /\ early = {} /\ recalled = {}
    /\ mode = [c \in Conversations |-> "normal"]
    /\ profile = NoProfile /\ obs = [c \in Conversations |-> NoObservation]

-----------------------------------------------------------------------------
(* The writers.                                                             *)

(* append_source: the oldest source makes room. *)
append_source(sources, e) ==
    IF \E k \in DOMAIN sources : sources[k] = e THEN sources
    ELSE Append(IF Len(sources) >= MaxSources THEN Tail(sources) ELSE sources, e)

First(s, n) == SubSeq(s, 1, IF Len(s) < n THEN Len(s) ELSE n)

AliasesAfter_NewSource(p) ==
    IF p.name = Empty \/ \E k \in DOMAIN p.aliases : p.aliases[k].alias = p.name
    THEN First(p.aliases, MaxAliases)
    ELSE First(Append(p.aliases, [alias |-> p.name, source |-> Len(stored) + 1]), MaxAliases)

(* The old name becomes an alias, with the event that established it. *)
AliasesAfter(p) ==
    IF p.name = Empty \/ \E k \in DOMAIN p.aliases : p.aliases[k].alias = p.name
    THEN First(p.aliases, MaxAliases)
    ELSE First(Append(p.aliases, [alias |-> p.name, source |-> p.established]), MaxAliases)

(* upsert_participant_profile_in_txn.  An unchanged name leaves the row and *)
(* its invalidation; a changed one makes a new row.                         *)
upsert_participant_profile(p, name, e) ==
    IF p = NoProfile
    THEN [NoProfile EXCEPT !.name = name, !.established = e, !.sources = <<e>>]
    ELSE IF p.name = name THEN [p EXCEPT !.sources = append_source(@, e)]
    ELSE [name |-> name, aliases |-> AliasesAfter(p), established |-> e,
          sources |-> append_source(p.sources, e), invalidated |-> FALSE]

(* upsert_participant_conversation_observation_in_txn.  An empty card is    *)
(* stored as NULL, which never equals the card that comes in.               *)
upsert_conversation_observation(o, card, e) ==
    [o EXCEPT !.card = card, !.sources = append_source(@, e),
              !.established = IF card = Empty \/ o.card # card THEN e ELSE @]

(* participant_observation_allowed *)
observation_allowed(e, c) == e \notin early /\ mode[c] # "never_long_term"

(* process_message_in_transaction of a message with a sender profile. *)
insert(c, name, card) ==
    LET e == Len(stored) + 1
    IN /\ e <= MaxEvents /\ (c \notin Groups => card = Empty)
       /\ stored' = Append(stored, [conv |-> c, name |-> name, card |-> card])
       /\ recalled' = recalled \cup (early \cap {e})
       /\ profile' = IF observation_allowed(e, c)
                     THEN upsert_participant_profile(profile, name, e) ELSE profile
       /\ obs' = IF observation_allowed(e, c) /\ c \in Groups
                 THEN [obs EXCEPT ![c] = upsert_conversation_observation(@, card, e)] ELSE obs
       /\ UNCHANGED <<early, mode>>

(* record_recall, after the message or before it. *)
record_recall(e) ==
    /\ e \notin recalled \cup early
    /\ IF e \in DOMAIN stored THEN recalled' = recalled \cup {e} /\ UNCHANGED early
       ELSE e = Len(stored) + 1 /\ early' = early \cup {e} /\ UNCHANGED recalled
    /\ UNCHANGED <<stored, mode, profile, obs>>

In(c, e) == e \in DOMAIN stored /\ stored[e].conv = c

(* set_conversation_mode and reconcile_conversation_visibility_in_txn: the  *)
(* observation of the conversation and a profile with a source in it are    *)
(* invalidated, and stay so when the mode is lifted.                        *)
set_conversation_mode(c, m) ==
    /\ mode[c] # m /\ mode' = [mode EXCEPT ![c] = m]
    /\ IF m = "normal" THEN UNCHANGED <<profile, obs>>
       ELSE /\ obs' = IF obs[c] = NoObservation THEN obs ELSE [obs EXCEPT ![c].invalidated = TRUE]
            /\ profile' =
                 IF In(c, profile.established)
                    \/ \E k \in DOMAIN profile.sources : In(c, profile.sources[k])
                 THEN [profile EXCEPT !.invalidated = TRUE] ELSE profile
    /\ UNCHANGED messages

Next ==
    \/ \E c \in Conversations, name \in Names, card \in Cards : insert(c, name, card)
    \/ \E e \in Events : record_recall(e)
    \/ \E c \in Conversations, m \in Modes : set_conversation_mode(c, m)

Spec == Init /\ [][Next]_vars

-----------------------------------------------------------------------------
(* The readers.                                                             *)

Usable(e, modes) == /\ e \in DOMAIN stored /\ e \notin recalled
                    /\ mode[stored[e].conv] \in modes

Valid(sources, modes) == sources # <<>> /\ \A k \in DOMAIN sources : Usable(sources[k], modes)

source_refs_valid(sources) == Valid(sources, {"normal"})
single_event_valid(e) == Usable(e, {"normal"})

(* Envelope data may support a nickname. *)
Envelope == {"normal", "envelope_only"}
profile_source_refs_valid(sources) == Valid(sources, Envelope)
profile_event_valid(e) == Usable(e, Envelope)

profile_valid == ~profile.invalidated /\ profile_source_refs_valid(profile.sources)
observation_valid(c) == /\ ~obs[c].invalidated /\ source_refs_valid(obs[c].sources)
                        /\ single_event_valid(obs[c].established)

(* participant_context_impl: the display name, the aliases and, with a      *)
(* conversation given, the card.                                            *)
DisplayName == IF profile_valid /\ profile_event_valid(profile.established)
               THEN {profile.name} \ {Empty} ELSE {}
Aliases == IF profile_valid THEN {profile.aliases[k].alias : k \in DOMAIN profile.aliases} ELSE {}
GroupCard(c) == IF observation_valid(c) THEN {obs[c].card} \ {Empty} ELSE {}

(* participants_by_display_name: the person is found under this name, with  *)
(* conversation c given.                                                    *)
participants_by_display_name(name, c) ==
    /\ ~profile.invalidated /\ source_refs_valid(profile.sources)
    /\ \/ profile.name = name /\ single_event_valid(profile.established)
       \/ \E k \in DOMAIN profile.aliases : /\ profile.aliases[k].alias = name
                                            /\ single_event_valid(profile.aliases[k].source)
       \/ obs[c].card = name /\ observation_valid(c)

-----------------------------------------------------------------------------
TypeOK ==
    /\ stored \in Seq([conv : Conversations, name : Names, card : Names])
    /\ Len(stored) <= MaxEvents
    /\ early \subseteq Nat /\ recalled \subseteq DOMAIN stored
    /\ mode \in [Conversations -> Modes]
    /\ profile \in [name : Names, established : 0..Len(stored), invalidated : BOOLEAN,
                    aliases : Seq([alias : Names, source : 1..Len(stored)]),
                    sources : Seq(1..Len(stored))]
    /\ obs \in [Conversations -> [card : Names, established : 0..Len(stored),
                                  sources : Seq(1..Len(stored)), invalidated : BOOLEAN]]
    /\ Len(profile.sources) <= MaxSources /\ Len(profile.aliases) <= MaxAliases

Supports(e, name, modes) == Usable(e, modes) /\ stored[e].name = name

(* A name is shown only if a message the secretary may use carries it:      *)
(* stored, not recalled, in a conversation whose envelopes may be used,     *)
(* even when the bounded list of sources has dropped that message.          *)
NameShownIsSupported ==
    \A name \in DisplayName : \E e \in DOMAIN stored : Supports(e, name, Envelope)

(* A card is shown only if a usable message of that very group carries it:  *)
(* what is called so in one group is not called so in another.              *)
CardShownIsSupported ==
    \A c \in Conversations : \A card \in GroupCard(c) :
        \E e \in DOMAIN stored : /\ Usable(e, {"normal"}) /\ stored[e].card = card
                                 /\ stored[e].conv = c

(* A person is found under a name, an old name or a card only if a usable   *)
(* message carries it.                                                      *)
ByNameIsSupported ==
    \A name \in Names \ {Empty}, c \in Conversations :
        participants_by_display_name(name, c) =>
            \E e \in DOMAIN stored :
                \/ Supports(e, name, {"normal"})
                \/ Usable(e, {"normal"}) /\ stored[e].card = name /\ stored[e].conv = c

Carries(e, name) == e \in DOMAIN stored /\ stored[e].name = name

(* A message is in the profile's list of sources, or as many messages that  *)
(* came later fill the list as it holds.                                    *)
InSources(e) == \E k \in DOMAIN profile.sources : profile.sources[k] = e
PushedOut(e) == /\ Len(profile.sources) = MaxSources
                /\ \A k \in DOMAIN profile.sources : profile.sources[k] > e
Followed(e) == InSources(e) \/ PushedOut(e)

(* The message that carried an old name which is shown may be used, unless  *)
(* later messages have pushed it out of the bounded list: the code looks at *)
(* the list and not at the source of the alias.                             *)
OldNameShownIsSupported ==
    profile_valid =>
        \A k \in DOMAIN profile.aliases :
            LET old == profile.aliases[k]
            IN /\ Carries(old.source, old.alias)
               /\ Usable(old.source, Envelope) \/ PushedOut(old.source)

(* What keeps those four true: a name, an old name and a card are stored    *)
(* with the number of a message that carries it, messages are never         *)
(* removed, and the list of sources holds the last ones.                    *)
ProfileShape == [name : Names, aliases : Seq([alias : Names, source : Nat]), established : Nat,
                 sources : Seq(Nat), invalidated : BOOLEAN]
ObservationShape == [card : Names, established : Nat, sources : Seq(Nat), invalidated : BOOLEAN]

CardCarried(c, e, card) ==
    e \in DOMAIN stored /\ stored[e].card = card /\ stored[e].conv = c

SourcesInv ==
    /\ Len(profile.sources) <= MaxSources
    /\ \A k \in DOMAIN profile.sources : profile.sources[k] \in DOMAIN stored
    /\ \A k, l \in DOMAIN profile.sources : k < l => profile.sources[k] < profile.sources[l]
    /\ profile = NoProfile \/ Followed(profile.established)
    /\ \A k \in DOMAIN profile.aliases : Followed(profile.aliases[k].source)

NamesInv ==
    /\ stored \in Seq([conv : Conversations, name : Names, card : Cards])
    /\ profile \in ProfileShape /\ obs \in [Conversations -> ObservationShape]
    /\ profile = NoProfile \/ Carries(profile.established, profile.name)
    /\ \A k \in DOMAIN profile.aliases : Carries(profile.aliases[k].source, profile.aliases[k].alias)
    /\ \A c \in Conversations :
         obs[c].card = Empty \/ CardCarried(c, obs[c].established, obs[c].card)

(* Aliases are checked against the event that established them, as the      *)
(* history of the project says of names, cards and aliases alike.           *)
AliasShownIsSupported ==
    \A name \in Aliases : \E e \in DOMAIN stored : Supports(e, name, Envelope)
=============================================================================
