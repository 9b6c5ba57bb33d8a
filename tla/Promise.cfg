\* Rival calls of Complete against readers that come back for ever: one
\* completer wins, one is blocked in the once, one comes late.
CONSTANTS
    Completers = {c1, c2, c3}
    Readers = {r1, r2}
    None = None
    Timeout = Timeout
SPECIFICATION FairSpec
INVARIANTS
    OneWinner
PROPERTIES
    ImplementsCell
    CallsReturn
