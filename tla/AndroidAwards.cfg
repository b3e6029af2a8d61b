\* The phone's queue: two flushes at once, slow writes, awards earned again, an entry, a damaged row.
SPECIFICATION MCSpec
CONSTANTS
    A = A  B = B  a1 = a1  a2 = a2  b1 = b1  entry = entry  f1 = f1  f2 = f2
    Earned = {a1, a2, b1, entry}
    KeyOf <- MCKeyOf
    BoardEntries = {entry}
    Withdrawn = {A}
    Breakable = {a1}
    Clock = {1, 2}
    Flushes = {f1, f2}
    Nothing = Nothing
PROPERTIES
    PhoneKeepsPromise
