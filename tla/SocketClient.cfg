\* Application calls, kernel completions and hang-ups in any order, under
\* every listener policy; update() is called again and again (weak fairness).
SPECIFICATION FairSpec
INVARIANTS TypeOK StateMatchesSocket
PROPERTIES HangupNoticed
