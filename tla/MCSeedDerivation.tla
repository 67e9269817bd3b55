-------------------------- MODULE MCSeedDerivation --------------------------
\* Instances of SeedDerivation for TLC: minutes of 2 seconds, days of 4 minutes,
\* the second and third of which are the business window.
EXTENDS SeedDerivation

MCCommitments == [
    enterprise |-> [first_response_minutes |-> 1, resolution_business_hours |-> 2],
    free |-> [first_response_minutes |-> 6, resolution_business_days |-> 2]]

MCTiers == DOMAIN MCCommitments

\* From a Thursday to the Tuesday after.
MCOpened == 24..71

Wrote(t, actor) == [at |-> t, actor |-> actor]

\* The first message is the customer's; then an agent or the portal answers, and
\* perhaps the customer writes once more, in whatever order the file has them.
MCInteractions(opened) ==
    {<<>>, <<Wrote(opened, "customer")>>}
    \cup {<<Wrote(opened, "customer"), Wrote(t, actor)>> :
            t \in opened..71, actor \in {"agent", "portal"}}
    \cup {<<Wrote(opened, "customer"), Wrote(t, "customer"), Wrote(t - 2, "agent")>> :
            t \in (opened + 2)..71}

Ticket(origin, tier, opened, interactions) ==
    [origin |-> origin, tier |-> tier, opened |-> opened, interactions |-> interactions]

MCTickets ==
    UNION {{Ticket("historical", tier, opened, i) : i \in MCInteractions(opened)} :
             tier \in MCTiers, opened \in MCOpened}
    \cup {Ticket(origin, tier, opened, <<>>) :
            origin \in {"narrative", "posted"}, tier \in MCTiers, opened \in MCOpened}

\* Two times of a day that clients may post at, on every second day.
MCTimes == {t \in 24..79 : t % 16 \in {0, 3}}
=============================================================================
