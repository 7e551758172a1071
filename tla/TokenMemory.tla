---------------------------- MODULE TokenMemory ----------------------------
(***************************************************************************)
(* MemoryTokenStorage (storage/memory.py).  Its methods are coroutines     *)
(* that never suspend, so each is one step.  Two dictionaries, of access   *)
(* and of refresh tokens, hold a token's expires_at and its list of        *)
(* scopes.  A list is an object: a caller that has a reference to it can   *)
(* change it later, which is why store_token copies the list it is given;  *)
(* load_token copies the dictionary it answers, not the list in it.        *)
(***************************************************************************)
EXTENDS Integers

CONSTANTS Kinds, Tokens,  \* Kinds: access and refresh tokens, a dictionary each
          Expiries,       \* the expires_at callers give, in seconds
          Absent,         \* no such token
          Lists, Scopes,  \* list objects, and what may be in them
          Second,         \* ticks of the clock per second
          NoAnswer,
          MaxTime         \* bound of the exploration

\* The methods for access and for refresh tokens differ in the dictionary only.
Keys == Kinds \X Tokens
Row == [expires : Expiries, scopes : Lists]

ASSUME StorageAssumption == /\ Expiries \subseteq Int /\ Absent \notin Int \cup Row
                            /\ Second \in Nat \ {0} /\ MaxTime \in Nat

VARIABLES clock,        \* ticks
          initialized,
          rows,         \* the dictionaries
          lists,        \* the scopes in each list object
          held,         \* the list objects callers have a reference to
          answer,       \* what the last call found, if it was a load
          given, lent   \* history, read by no action: the scopes each token was stored
                        \* with, and the tokens loaded since they were stored

heap == <<lists, held>>
history == <<given, lent>>
vars == <<clock, initialized, rows, heap, answer, history>>

Stored == {k \in Keys : rows[k] # Absent}

TypeOK == /\ clock \in Nat
          /\ initialized \in BOOLEAN
          /\ rows \in [Keys -> Row \cup {Absent}]
          /\ lists \in [Lists -> Scopes]
          /\ held \subseteq Lists
          /\ answer \in (Keys \X (Expiries \cup {Absent})) \cup {NoAnswer}
          /\ given \in [Keys -> Scopes \cup {Absent}]
          /\ lent \subseteq Keys
          /\ ~initialized => Stored = {}

Empty == [k \in Keys |-> Absent]

Init == /\ clock = 0
        /\ initialized = FALSE
        /\ rows = Empty
        /\ lists \in [Lists -> Scopes]
        /\ held = {}
        /\ answer = NoAnswer
        /\ given = Empty
        /\ lent = {}

-----------------------------------------------------------------------------
\* The lists nobody can reach: a new list is one of them.
Unreachable == Lists \ (held \cup {rows[k].scopes : k \in Stored})

\* The callers' own doings: a new list, a change, a reference given up.
Make(l, s) == /\ l \in Unreachable
              /\ lists' = [lists EXCEPT ![l] = s]
              /\ held' = held \cup {l}
              /\ UNCHANGED <<clock, initialized, rows, answer, history>>

Change(l, s) == /\ l \in held
                /\ lists' = [lists EXCEPT ![l] = s]
                /\ UNCHANGED <<clock, initialized, rows, held, answer, history>>

Drop(l) == /\ l \in held
           /\ held' = held \ {l}
           /\ UNCHANGED <<clock, initialized, rows, lists, answer, history>>

-----------------------------------------------------------------------------
Initialize == /\ initialized' = TRUE
              /\ answer' = NoAnswer
              /\ UNCHANGED <<clock, rows, heap, history>>

\* Mutant of Clear: the refresh tokens stay.
Clear_Access == rows' = [k \in Keys |-> IF k[1] = "access" THEN Absent ELSE rows[k]]

Clear == rows' = Empty

Close == /\ Clear
         /\ initialized' = FALSE
         /\ answer' = NoAnswer
         /\ UNCHANGED <<clock, heap, history>>

\* Every other method raises unless the storage is initialized.
Raise == /\ ~initialized
         /\ answer' = NoAnswer
         /\ UNCHANGED <<clock, initialized, rows, heap, history>>

\* Mutant of Copy: the caller's own list is kept.
Copy_Not(l, copy) == copy = l /\ UNCHANGED lists

\* scopes.copy()
Copy(l, copy) == /\ copy \in Unreachable
                 /\ lists' = [lists EXCEPT ![copy] = lists[l]]

Store(k, l, exp) == /\ initialized
                    /\ l \in held
                    /\ \E copy \in Lists :
                          /\ Copy(l, copy)
                          /\ rows' = [rows EXCEPT ![k] = [expires |-> exp, scopes |-> copy]]
                    /\ given' = [given EXCEPT ![k] = lists[l]]
                    /\ lent' = lent \ {k}
                    /\ answer' = NoAnswer
                    /\ UNCHANGED <<clock, initialized, held>>

\* int(time.time())
Now == clock \div Second

\* Mutant of Expired: at its expires_at already.
Expired_AtOnce(k) == rows[k] # Absent /\ rows[k].expires <= Now

Expired(k) == rows[k] # Absent /\ rows[k].expires < Now

\* The answer's dictionary is the caller's own, the list of scopes in it is not.
Load(k) == /\ initialized
           /\ rows[k] # Absent /\ ~Expired(k)
           /\ answer' = <<k, rows[k].expires>>
           /\ held' = held \cup {rows[k].scopes}
           /\ lent' = lent \cup {k}
           /\ UNCHANGED <<clock, initialized, rows, lists, given>>

Remove(gone) == rows' = [k \in Keys |-> IF k \in gone THEN Absent ELSE rows[k]]

\* None: there is no such token, or it has expired and is deleted.
LoadNone(k) == /\ initialized
               /\ rows[k] = Absent \/ Expired(k)
               /\ Remove({k})
               /\ answer' = <<k, Absent>>
               /\ UNCHANGED <<clock, initialized, heap, history>>

Delete(k) == /\ initialized
             /\ Remove({k})
             /\ answer' = NoAnswer
             /\ UNCHANGED <<clock, initialized, heap, history>>

Cleanup(kind) == /\ initialized
                 /\ Remove({k \in Keys : k[1] = kind /\ Expired(k)})
                 /\ answer' = NoAnswer
                 /\ UNCHANGED <<clock, initialized, heap, history>>

\* get_token_count: expired tokens count until they are cleaned up.
Count == /\ initialized
         /\ answer' = NoAnswer
         /\ UNCHANGED <<clock, initialized, rows, heap, history>>

Tick == /\ clock < MaxTime
        /\ clock' = clock + 1
        /\ UNCHANGED <<initialized, rows, heap, answer, history>>

Next == \/ Initialize \/ Close \/ Raise \/ Count \/ Tick
        \/ \E k \in Keys : \/ \E l \in Lists, exp \in Expiries : Store(k, l, exp)
                           \/ Load(k) \/ LoadNone(k) \/ Delete(k)
        \/ \E kind \in Kinds : Cleanup(kind)
        \/ \E l \in Lists : \/ \E s \in Scopes : Make(l, s) \/ Change(l, s)
                            \/ Drop(l)

Spec == Init /\ [][Next]_vars

-----------------------------------------------------------------------------
\* The properties.

\* A token that nobody loaded since it was stored has the scopes it was stored with,
\* whatever callers did meanwhile to the lists they stored, of this token and of
\* others, and to those they loaded of others (the copy on lines 62 and 167).  Of a
\* token that was loaded it says nothing: a load answers the stored list itself.
ScopesKept == \A k \in Stored \ lent : lists[rows[k].scopes] = given[k]

Table == [k \in Keys |-> IF rows[k] = Absent THEN Absent ELSE rows[k].expires]

Storage == INSTANCE TokenStorage WITH table <- Table

\* Loads, deletes and cleanups keep what the interface promises, up to the second
\* that int(time.time()) (lines 88, 118, 193, 223) cuts off.
ImplementsTokenStorage == Storage!Spec
=============================================================================
