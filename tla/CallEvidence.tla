----------------------------- MODULE CallEvidence -----------------------------
(***************************************************************************)
(* The evidence timeline of Lobby calls: persisting an action of a Lobby   *)
(* appends it to the Lobby's archive under a gapless sequence number, a    *)
(* report of an ended call pins the prefix that ends with its CALL_ENDED,  *)
(* and moderators read the pinned transcript page by page while the call's *)
(* late events and other reports go on.                                    *)
(***************************************************************************)
EXTENDS Integers, Sequences, FiniteSets, FiniteSetsExt

CONSTANTS
    Actions, Lobbies,
    LobbyOf,        \* the Lobby an action happened in
    Ends,           \* actions of type lobby.call.ended
    Timeless,       \* actions of types that are no evidence
    Writers,        \* transactions that persist actions
    CallReports,    \* reports that name a terminal action
    PageSizes,      \* what readers ask for
    MaxPage,        \* 100
    MaxRollbacks,   \* bound
    NoAction

ASSUME EvidenceConstants ==
    /\ LobbyOf \in [Actions -> Lobbies] /\ Ends \subseteq Actions /\ Timeless \subseteq Actions \ Ends
    /\ PageSizes \subseteq Nat /\ MaxPage \in Nat \ {0} /\ MaxRollbacks \in Nat /\ NoAction \notin Actions

VARIABLES
    lastSequence,   \* call_evidence_archive
    persisted,      \* actions in action_inbox
    sequence,       \* call_evidence_event: an action's number, 0 if it has none
    writing,        \* the action of an open transaction, and the number it took
    snapshot,       \* report_evidence_snapshot: the terminal action, and the last number
    cursor,         \* what a reader of the report's transcript asks for next
    transcript,     \* what the reader was given
    rollbacks

evidenceVars == <<lastSequence, persisted, sequence, writing, snapshot, cursor, transcript, rollbacks>>

NotWriting == [action |-> NoAction, number |-> 0]
NoSnapshot == [terminal |-> NoAction, last |-> 0]

\* When the actions of a set are stored already, and no other is.
EvidenceInitWith(stored) ==
    /\ lastSequence = [l \in Lobbies |-> 0]
    /\ persisted = stored
    /\ sequence = [a \in Actions |-> 0]
    /\ writing = [w \in Writers |-> NotWriting]
    /\ snapshot = [r \in CallReports |-> NoSnapshot]
    /\ cursor = [r \in CallReports |-> 0]
    /\ transcript = [r \in CallReports |-> <<>>]
    /\ rollbacks = 0

EvidenceInit == EvidenceInitWith({})

-----------------------------------------------------------------------------
(* Writing                                                                  *)

Timeline(l) == {a \in Actions : LobbyOf[a] = l /\ sequence[a] > 0}

\* The row of a Lobby's archive is locked from its update to the commit.
CounterFree(l) == \A w \in Writers : writing[w].number > 0 => LobbyOf[writing[w].action] # l

\* persist_and_apply inserts the action, once, and append_lobby_evidence_event
\* takes the Lobby's next number.
Record(w, a) ==
    /\ writing[w] = NotWriting /\ a \notin persisted
    /\ \A v \in Writers : writing[v].action # a
    /\ a \notin Timeless => CounterFree(LobbyOf[a])
    /\ writing' = [writing EXCEPT ![w] =
            [action |-> a, number |-> IF a \in Timeless THEN 0 ELSE lastSequence[LobbyOf[a]] + 1]]
    /\ UNCHANGED <<lastSequence, persisted, sequence, snapshot, cursor, transcript, rollbacks>>

CommitRecord(w) ==
    LET a == writing[w].action n == writing[w].number IN
    /\ a # NoAction
    /\ persisted' = persisted \cup {a}
    /\ sequence' = [sequence EXCEPT ![a] = n]
    /\ lastSequence' = IF n = 0 THEN lastSequence ELSE [lastSequence EXCEPT ![LobbyOf[a]] = n]
    /\ writing' = [writing EXCEPT ![w] = NotWriting]
    /\ UNCHANGED <<snapshot, cursor, transcript, rollbacks>>

\* A later statement of the transaction fails; the number is given back.
RollBack(w) ==
    /\ writing[w].action # NoAction
    /\ rollbacks < MaxRollbacks /\ rollbacks' = rollbacks + 1
    /\ writing' = [writing EXCEPT ![w] = NotWriting]
    /\ UNCHANGED <<lastSequence, persisted, sequence, snapshot, cursor, transcript>>

-----------------------------------------------------------------------------
(* Reports                                                                  *)

Prefix(l, n) == {a \in Timeline(l) : sequence[a] <= n}

\* create_report with a terminal action: refused while the action is not in
\* the timeline, or if the prefix that ends with it had a gap.
CreateCallReport(r, a) ==
    LET prefix == {sequence[b] : b \in Prefix(LobbyOf[a], sequence[a])} IN
    /\ snapshot[r] = NoSnapshot
    /\ a \in Ends /\ sequence[a] > 0
    /\ Cardinality(prefix) = sequence[a] - Min(prefix) + 1
    /\ snapshot' = [snapshot EXCEPT ![r] = [terminal |-> a, last |-> sequence[a]]]
    /\ UNCHANGED <<lastSequence, persisted, sequence, writing, cursor, transcript, rollbacks>>

Limit(size) == IF size < 1 THEN 1 ELSE IF size > MaxPage THEN MaxPage ELSE size

\* The rows of a page: the first ones after the cursor.
Page(r, size) ==
    LET rest == {a \in Timeline(LobbyOf[snapshot[r].terminal]) :
                    sequence[a] <= snapshot[r].last /\ sequence[a] > cursor[r]}
        first == {a \in rest : Cardinality({b \in rest : sequence[b] < sequence[a]}) < Limit(size)}
    IN  [i \in 1..Cardinality(first) |->
            CHOOSE a \in first : Cardinality({b \in first : sequence[b] < sequence[a]}) = i - 1]

\* Slip: the size asked for decides whether there is more.
NextCursorUnclamped(r, size, page) ==
    IF Len(page) = size /\ sequence[page[Len(page)]] < snapshot[r].last
    THEN sequence[page[Len(page)]] ELSE -1

\* -1 stands for the empty cursor that ends the transcript.
NextCursor(r, size, page) ==
    IF Len(page) = Limit(size) /\ sequence[page[Len(page)]] < snapshot[r].last
    THEN sequence[page[Len(page)]] ELSE -1

\* list_report_transcript
ListReportTranscript(r, size) ==
    LET page == Page(r, size) IN
    /\ snapshot[r] # NoSnapshot /\ cursor[r] # -1
    /\ transcript' = [transcript EXCEPT ![r] = @ \o page]
    /\ cursor' = [cursor EXCEPT ![r] = NextCursor(r, size, page)]
    /\ UNCHANGED <<lastSequence, persisted, sequence, writing, snapshot, rollbacks>>

-----------------------------------------------------------------------------

Reading(r) == \E size \in PageSizes : ListReportTranscript(r, size)

EvidenceNext ==
    \/ \E w \in Writers : \/ \E a \in Actions : Record(w, a)
                          \/ CommitRecord(w) \/ RollBack(w)
    \/ \E r \in CallReports : \/ \E a \in Actions : CreateCallReport(r, a)
                              \/ Reading(r)

EvidenceSpec == EvidenceInit /\ [][EvidenceNext]_evidenceVars

-----------------------------------------------------------------------------
(* Properties                                                               *)

\* A moderator who reads to the end has read the events of the call up to and
\* with its CALL_ENDED, each once and in order, though events were appended
\* between the pages and the sizes of the pages differ.
TranscriptIsTheCall ==
    \A r \in CallReports : cursor[r] = -1 =>
        /\ Len(transcript[r]) = sequence[snapshot[r].terminal]
        /\ \A i \in 1..Len(transcript[r]) :
                sequence[transcript[r][i]] = i /\ LobbyOf[transcript[r][i]] = LobbyOf[snapshot[r].terminal]
=============================================================================
