\* A call in flight and another that overtakes it: two at a time, three when
\* an answer triggers more; calls of workspaces left before count as well.
SPECIFICATION Spec
CONSTANTS
    u1 = u1
    u2 = u2
    p1 = p1
    p2 = p2
    s1 = s1
    s2 = s2
    None = None
    Users = {u1, u2}
    Projects = {p1, p2}
    Sessions = {s1, s2}
    Prompts = {"ask"}
    Stored <- MCStored
    MaxCalls = 2
INVARIANTS OneStream RestoreOverwritesNothing LoadingJustified
