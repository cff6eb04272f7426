------------------------------ MODULE MCFeeds ------------------------------
EXTENDS Feeds

\* "nmap-discovery" sorts before the other connector.
MCNames == {1, 2}
MCNmap == 1
MCNeedsToken == {2}

\* A connector entered in the form, its toggle, and an interval of its own,
\* entered right or wrong.
Ask(url, enabled, interval) ==
    [url |-> url, token |-> url, enabled |-> enabled, interval |-> interval]

MCAsks == {Ask(TRUE, "yes", "same"), Ask(FALSE, "no", "same"),
           Ask(FALSE, "same", "number"), Ask(FALSE, "yes", "text")}
=============================================================================
