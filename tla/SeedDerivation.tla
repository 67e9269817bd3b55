--------------------------- MODULE SeedDerivation ---------------------------
(***************************************************************************)
(* What the seed makes of a ticket: its incident, its work notes and its   *)
(* SLA records (app/seed.py), and how the API compares the timestamps of   *)
(* these rows, which are texts of several formats, with those that it      *)
(* writes itself and those that clients send.                              *)
(*                                                                         *)
(* A time is a number of seconds.  Minutes, days and the business window   *)
(* are as long as the constants say; day 0 is a Monday.                    *)
(***************************************************************************)
EXTENDS Integers, Sequences, FiniteSetsExt

CONSTANTS
    Tickets,         \* the tickets that the fixtures may hold
    Times,           \* when clients post, and what they filter by
    Commitments,     \* tier_commitments.json: targets in minutes, per tier
    SecondsPerMinute, MinutesPerHour, MinutesPerDay,
    OpeningMinute, ClosingMinute,    \* 09:00 and 17:00, Monday to Friday
    ReplyMinutes,    \* when a narrative ticket is answered
    MaxPosts         \* bound: notes that clients post

ASSUME DerivationAssumption ==
    /\ {SecondsPerMinute, MinutesPerHour, MinutesPerDay, ReplyMinutes} \subseteq Nat \ {0}
    /\ {OpeningMinute, ClosingMinute} \subseteq Nat
    /\ OpeningMinute < ClosingMinute /\ ClosingMinute <= MinutesPerDay
    /\ Times \subseteq Nat /\ MaxPosts \in Nat

\* The fixtures: who writes is a customer, an agent or the portal, since the seed
\* refuses others, and nobody does before the ticket is opened.
ASSUME TicketsAssumption ==
    \A t \in Tickets :
        /\ t.origin \in {"historical", "narrative", "posted"}
        /\ t.opened \in Nat
        /\ t.interactions \in Seq([at : Nat, actor : {"customer", "agent", "portal"}])
        /\ \A i \in DOMAIN t.interactions : t.opened <= t.interactions[i].at
        /\ t.tier \in DOMAIN Commitments

ASSUME CommitmentsAssumption ==
    \A tier \in DOMAIN Commitments :
        LET commitment == Commitments[tier]
        IN  /\ commitment.first_response_minutes \in Nat
            /\ IF "resolution_business_hours" \in DOMAIN commitment
               THEN commitment.resolution_business_hours \in Nat
               ELSE commitment.resolution_business_days \in Nat

SecondsPerDay == SecondsPerMinute * MinutesPerDay

Day(t) == t \div SecondsPerDay

(***************************************************************************)
(* Timestamps as texts, compared character by character: the date, the     *)
(* separator, the time of the day, and what follows the seconds.  The      *)
(* order of the characters is that of their codes; a text that ends comes  *)
(* before one that goes on.                                                *)
(***************************************************************************)
End == 0   Space == 1   Plus == 2   Point == 3   LetterT == 4   LetterZ == 5

Formats == [
    fixture |-> <<LetterT, LetterZ>>,     \* 2026-08-17T08:31:00Z
    sqlite  |-> <<Space, End>>,           \* datetime('now')
    micros  |-> <<LetterT, Point>>,       \* datetime.isoformat()
    whole   |-> <<LetterT, Plus>>,        \* the same, without microseconds
    naive   |-> <<LetterT, End>>,
    spaced  |-> <<Space, Plus>>,          \* str(datetime)
    date    |-> <<End, End>>]

Stamp(t, format) == [at |-> t, format |-> format]

Text(s) ==
    <<Day(s.at), Formats[s.format][1],
      IF s.format = "date" THEN 0 ELSE s.at % SecondsPerDay, Formats[s.format][2]>>

Less(a, b) ==
    \E i \in DOMAIN Text(a) :
        /\ Text(a)[i] < Text(b)[i]
        /\ \A j \in 1..(i - 1) : Text(a)[j] = Text(b)[j]

-----------------------------------------------------------------------------
VARIABLES
    ticket,      \* the ticket of the fixtures, or one that a client posts
    incident,    \* the row of incidents, or {} before it exists
    notes,       \* the rows of work_notes
    sla          \* the rows of task_sla

derivationVars == <<ticket, incident, notes, sla>>

DerivationInit == ticket \in Tickets /\ incident = {} /\ notes = {} /\ sla = {}

Note(created, by) == [created |-> created, by |-> by]

\* The last interaction, sorted by time.
ResolvedAt(t) ==
    Stamp(Max({t.interactions[i].at : i \in DOMAIN t.interactions}), "fixture")

\* A ticket of tickets.csv is closed, and resolved by its last interaction.
SeedHistorical ==
    /\ ticket.origin = "historical" /\ incident = {}
    /\ incident' = {[opened |-> Stamp(ticket.opened, "fixture"), state |-> "closed",
                     resolved |-> IF ticket.interactions = <<>> THEN {} ELSE {ResolvedAt(ticket)}]}
    /\ notes' = {Note(Stamp(ticket.interactions[i].at, "fixture"), ticket.interactions[i].actor) :
                   i \in DOMAIN ticket.interactions}
    /\ UNCHANGED <<ticket, sla>>

AddMinutes(t, minutes) == t + minutes * SecondsPerMinute

\* A narrative ticket is open, and has been answered.
SeedNarrative ==
    /\ ticket.origin = "narrative" /\ incident = {}
    /\ \E state \in {"new", "in_progress", "on_hold"} :
         incident' = {[opened |-> Stamp(ticket.opened, "fixture"),
                       state |-> state, resolved |-> {}]}
    /\ notes' = {Note(Stamp(ticket.opened, "fixture"), "customer"),
                 Note(Stamp(AddMinutes(ticket.opened, ReplyMinutes), "fixture"), "agent")}
    /\ UNCHANGED <<ticket, sla>>

\* Mutant: str(datetime.now(timezone.utc)).
SpacedFormats == {"spaced"}

\* datetime.now(timezone.utc).isoformat() leaves out microseconds that are 0.
PostedFormats == {"micros", "whole"}

\* POST /incidents, by a client: no SLA record is made of it.
PostIncident ==
    /\ ticket.origin = "posted" /\ incident = {}
    /\ \E format \in PostedFormats :
         incident' = {[opened |-> Stamp(ticket.opened, format), state |-> "new", resolved |-> {}]}
    /\ UNCHANGED <<ticket, notes, sla>>

-----------------------------------------------------------------------------
WallClockMinutes(start, end) == (end.at - start.at) \div SecondsPerMinute

IsWeekday(day) == day % 7 < 5

\* The seconds of a day's business window that lie between start and end.
Overlap(start, end, day) ==
    LET opening == day * SecondsPerDay + OpeningMinute * SecondsPerMinute
        closing == day * SecondsPerDay + ClosingMinute * SecondsPerMinute
        seconds == Min({end.at, closing}) - Max({start.at, opening})
    IN  IF seconds > 0 THEN seconds ELSE 0

\* Mutant: the last day is left out.
BusinessMinutesBefore(start, end) ==
    MapThenSumSet(LAMBDA day : Overlap(start, end, day) \div SecondsPerMinute,
                  {day \in Day(start.at)..(Day(end.at) - 1) : IsWeekday(day)})

BusinessMinutes(start, end) ==
    MapThenSumSet(LAMBDA day : Overlap(start, end, day) \div SecondsPerMinute,
                  {day \in Day(start.at)..Day(end.at) : IsWeekday(day)})

\* A business day counts as many minutes as its window has.
TargetMinutes(tier) ==
    LET commitment == Commitments[tier]
    IN  IF "resolution_business_hours" \in DOMAIN commitment
        THEN commitment.resolution_business_hours * MinutesPerHour
        ELSE commitment.resolution_business_days * (ClosingMinute - OpeningMinute)

\* "actual" is empty where the code stores NULL.
Record(definition, target, actual) ==
    [definition |-> definition, target |-> target, actual |-> actual,
     breached |-> \E minutes \in actual : minutes > target]

\* The first note, in the order of created_at, that is not the customer's.
FirstResponses ==
    {n \in notes : n.by # "customer" /\
        \A m \in notes : m.by # "customer" => ~Less(m.created, n.created)}

Derive ==
    /\ ticket.origin # "posted" /\ sla = {}
    /\ \E row \in incident :
         LET response == Record("first_response",
                 Commitments[ticket.tier].first_response_minutes,
                 {WallClockMinutes(row.opened, n.created) : n \in FirstResponses})
             resolution(end) == Record("resolution", TargetMinutes(ticket.tier),
                 {BusinessMinutes(row.opened, end)})
         IN  sla' = {response} \cup
                 IF row.state \in {"resolved", "closed"}
                 THEN {resolution(end) : end \in row.resolved} ELSE {}
    /\ UNCHANGED <<ticket, incident, notes>>

\* created_at DEFAULT (datetime('now')).
NoteStamp(t) == Stamp(t, "sqlite")

\* POST .../work_notes, once the seed is done and the server runs.
PostNote(t) ==
    /\ incident # {} /\ (ticket.origin = "posted" \/ sla # {})
    /\ Cardinality({n \in notes : n.by = "client"}) < MaxPosts
    /\ notes' = notes \cup {Note(NoteStamp(t), "client")}
    /\ UNCHANGED <<ticket, incident, sla>>

\* Mutant: ORDER BY sys_id alone; the ids of the fixtures come first.
ListedBySysId(m, n) ==
    IF m.created.format = n.created.format
    THEN m.created.at < n.created.at ELSE m.created.format = "fixture"

\* The list of notes: ORDER BY created_at.
ListedBefore(m, n) == Less(m.created, n.created)

\* The list of incidents: opened_at >= opened_after.  opened_before is the reverse.
OpenedAfter(row, bound) == ~Less(row.opened, bound)

DerivationNext ==
    SeedHistorical \/ SeedNarrative \/ PostIncident \/ Derive \/ \E t \in Times : PostNote(t)

DerivationSpec == DerivationInit /\ [][DerivationNext]_derivationVars

-----------------------------------------------------------------------------
\* When somebody else than the customer first wrote, and when anybody last
\* wrote, by the fixture; and the seconds that count from the opening to then.
EndsOf(definition) ==
    LET of(who) == {ticket.interactions[i].at : i \in {j \in DOMAIN ticket.interactions :
                      ticket.interactions[j].actor \in who}}
        reply == AddMinutes(ticket.opened, ReplyMinutes)
    IN  IF ticket.origin = "narrative" THEN {reply}
        ELSE IF definition = "first_response"
        THEN {t \in of({"agent", "portal"}) : \A u \in of({"agent", "portal"}) : t <= u}
        ELSE {t \in of({"agent", "portal", "customer"}) :
                \A u \in of({"agent", "portal", "customer"}) : t <= u => t = u}

InBusiness(t) ==
    /\ IsWeekday(Day(t))
    /\ (t % SecondsPerDay) \div SecondsPerMinute \in OpeningMinute..(ClosingMinute - 1)

Counted(definition, end) ==
    Cardinality({t \in ticket.opened..(end - 1) :
                   definition = "resolution" => InBusiness(t)})

\* An SLA record tells how long it took, counted second by second, but for the
\* incomplete minutes of the first and the last day, and a breach is one: what
\* is flagged took longer than the target, and what is not flagged took longer
\* by less than these minutes (seed.py:273-299, 335-364).
RecordsTellTheTime ==
    \A r \in sla :
        LET slack == IF r.definition = "resolution" THEN 2 ELSE 1
            seconds == {Counted(r.definition, end) : end \in EndsOf(r.definition)}
        IN  /\ r.actual = {} <=> seconds = {}
            /\ \A minutes \in r.actual, s \in seconds :
                 /\ minutes * SecondsPerMinute <= s
                 /\ s < (minutes + slack) * SecondsPerMinute
                 /\ IF r.breached THEN s > r.target * SecondsPerMinute
                    ELSE s < (r.target + slack) * SecondsPerMinute

Instant(bound) == IF bound.format = "date" THEN Day(bound.at) * SecondsPerDay ELSE bound.at

\* Texts are compared for times (incidents.py:89-94).  For a date, or a time in
\* UTC with a "T", a filter is wrong about an incident that was opened in that
\* very second, and about no other.
FilterToTheSecond ==
    \A row \in incident, t \in Times, format \in {"date", "naive", "whole", "micros", "fixture"} :
        LET bound == Stamp(t, format)
        IN  OpenedAfter(row, bound) # (row.opened.at >= Instant(bound)) =>
                row.opened.at = Instant(bound)

\* The list of notes is out of the order of time only where a client's note comes
\* before those that the seed made of the same day: the notes of clients among
\* themselves, and those of the fixtures, are in order, since the seed and the
\* database write one format each (work_notes.py:49, db.py:113, seed.py:236).
OnlyClientsNotesAreEarly ==
    \A m, n \in notes :
        m.created.at < n.created.at /\ ~ListedBefore(m, n) =>
            m.by # "client" /\ n.by = "client" /\ Day(m.created.at) = Day(n.created.at)

\* work-notes.spec.md, BEH-1: "ordered by created_at ascending (chronological
\* ticket timeline)".  False of notes of one day, where the separators decide.
NotesListedInTime ==
    \A m, n \in notes : m.created.at < n.created.at => ListedBefore(m, n)
=============================================================================
