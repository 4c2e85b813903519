-------------------------- MODULE ConnectionProofs --------------------------
(***************************************************************************)
(* Theorems about the sessions of saved connections, and about their way   *)
(* to a file and back (at the end).  ConnectionInv is                      *)
(* inductive; it is proved by connection and by call (Pieces), because a   *)
(* step is about one call and the connection of that call: Frame says so,  *)
(* and CallStepKeeps leaves the three facts about the two to each action.  *)
(***************************************************************************)
EXTENDS SavedConnections, FiniteSetTheorems, TLAPS

(* What the assumptions say, as the leaves below use it.                   *)
LEMMA ConstantsApart ==
  /\ None \notin Ids /\ None \notin Calls /\ None # Saved
  /\ \A i \in Ids, c \in Calls : i # c
  /\ None \notin Operations /\ Saved \notin Calls /\ Touched \subseteq Ids /\ MaxRestarts \in Nat
BY SessionsAssumption

(* The fields of a row, and of a session.                                  *)
LEMMA RowOf ==
  ASSUME NEW r \in Secrets, NEW k \in Kinds
  PROVE  /\ [config |-> r, kind |-> k] \in Row
         /\ [config |-> r, kind |-> k] # None
         /\ [config |-> r, kind |-> k].config = r /\ [config |-> r, kind |-> k].kind = k
BY NothingAssumption DEF Row

LEMMA SessionOf ==
  ASSUME NEW r \in Secrets, NEW p \in Secrets \cup {None}, NEW a \in Adapters
  PROVE  /\ [config |-> r, password |-> p, adapter |-> a] \in Session
         /\ [config |-> r, password |-> p, adapter |-> a] # None
         /\ [config |-> r, password |-> p, adapter |-> a].config = r
         /\ [config |-> r, password |-> p, adapter |-> a].password = p
         /\ [config |-> r, password |-> p, adapter |-> a].adapter = a
BY NothingAssumption DEF Session

-----------------------------------------------------------------------------
(* The types of all that an adapter, a row or a password depends on: which *)
(* calls hang only decides which go on.                                    *)
Typed ==
  /\ rows \in [Ids -> Row \cup {None}]
  /\ keyring \in [Ids -> Secrets \cup {None}]
  /\ sessions \in [Ids -> Session \cup {None}]
  /\ adapters \in [Adapters -> {"none", "open", "closed"}]
  /\ restored \in BOOLEAN
  /\ todo \subseteq Ids
  /\ migrating \in Ids \cup {None}
  /\ op \in [Calls -> Operations \cup {None}]
  /\ of \in [Calls -> Ids \cup {None}]
  /\ own \in [Calls -> BOOLEAN]
  /\ at \in [Calls -> Places]
  /\ got \in [Calls -> Secrets \cup {None}]
  /\ restarts \in 0 .. MaxRestarts
  /\ faults \in [Ids -> SUBSET Faults]
  /\ promised \in [Ids -> Calls \cup {None}]

(* The invariant by connection and by call.                                *)
SavedAt(i) ==
  sessions[i] # None /\ "unsaved" \notin faults[i] =>
    /\ rows[i] # None
    /\ \/ rows[i].kind # "s3" /\ rows[i].config = sessions[i].config
       \/ rows[i].kind = "s3" /\ "overlap" \in faults[i]

(* Adapters that a call about i, or the start for i, has made.             *)
Made(a, i) == a = i \/ (a \in Calls /\ of[a] = i)
Holds(i, a) == sessions[i] # None /\ sessions[i].adapter = a

NoLeakAt(i) == \A a \in Adapters :
  Made(a, i) /\ adapters[a] = "open" =>
    Holds(i, a) \/ (a \in Calls /\ at[a] = "testing") \/ "overlap" \in faults[i]

UsableAt(i) ==
  sessions[i] # None /\ "overlap" \notin faults[i] /\ "broken" \notin faults[i] =>
    \/ adapters[sessions[i].adapter] = "open"
    \/ \E c \in Calls : of[c] = i /\ Closing(c)

KeptAt(i) ==
  promised[i] # None /\ "overlap" \notin faults[i] =>
    /\ keyring[i] = promised[i]
    /\ sessions[i] # None /\ "unread" \notin faults[i] => sessions[i].password = promised[i]

AdapterIsOwn(i) ==
  sessions[i] # None =>
    \/ sessions[i].adapter = i
    \/ sessions[i].adapter \in Calls /\ op[sessions[i].adapter] = "add" /\ of[sessions[i].adapter] = i

Working(d, i) == of[d] = i /\ Under(d) /\ op[d] # "test"

AloneAt(i) ==
  "overlap" \notin faults[i] => \A d \in Calls : Working(d, i) => OnlyCall(d) /\ SeenIsSo(d)

Good(i) ==
  SavedAt(i) /\ NoLeakAt(i) /\ UsableAt(i) /\ KeptAt(i) /\ AdapterIsOwn(i) /\ AloneAt(i)

InOrder(c) ==
  /\ at[c] = "idle" => op[c] = None /\ adapters[c] # "open"
  /\ at[c] # "idle" => of[c] \in Ids
  /\ Under(c) => /\ InCourse(c)
                 /\ at[c] = "setting" \/ at[c] = "s3 setting" => own[c]
                 /\ at[c] = "s3 deleting" => ~own[c]

Pieces ==
  /\ Typed /\ StartFirst
  /\ \A c \in Calls : InOrder(c)
  /\ \A i \in Ids : Good(i)

(* The two forms are the same, but for the calls that hang.                *)
LEMMA InPieces == ASSUME ConnectionInv PROVE Pieces
<1>1. Typed /\ StartFirst
  BY DEF ConnectionInv, TypeOK, Typed
<1>2. ASSUME NEW c \in Calls PROVE InOrder(c)
  BY DEF ConnectionInv, CallsInOrder, InOrder, Id
<1>3. ASSUME NEW i \in Ids PROVE Good(i)
  <2>1. SavedAt(i)
    BY DEF ConnectionInv, SessionIsSaved, SavedAt
  <2>2. AdapterIsOwn(i)
    BY DEF ConnectionInv, CallsInOrder, AdapterIsOwn, Id
  <2>3. NoLeakAt(i)
    <3> SUFFICES ASSUME NEW a \in Adapters, Made(a, i), adapters[a] = "open"
                 PROVE  Holds(i, a) \/ (a \in Calls /\ at[a] = "testing") \/ "overlap" \in faults[i]
      BY DEF NoLeakAt
    <3>1. CASE \E j \in Ids : sessions[j] # None /\ sessions[j].adapter = a
      <4>1. PICK j \in Ids : sessions[j] # None /\ sessions[j].adapter = a
        BY <3>1
      <4>2. a = j \/ (a \in Calls /\ of[a] = j)
        BY <4>1 DEF ConnectionInv, CallsInOrder, Id
      <4> QED
        BY <4>1, <4>2, ConstantsApart DEF Made, Holds
    <3>2. CASE a \in Calls /\ (At(a, "testing") \/ "overlap" \in faults[Id(a)])
      BY <3>2, ConstantsApart DEF Made, At, Id
    <3>3. CASE a \in Ids /\ "overlap" \in faults[a]
      BY <3>3, ConstantsApart DEF Made
    <3> QED
      BY <3>1, <3>2, <3>3 DEF ConnectionInv, NothingLeaks
  <2>4. UsableAt(i)
    BY DEF ConnectionInv, SessionIsUsable, UsableAt, Id
  <2>5. KeptAt(i)
    BY DEF ConnectionInv, PasswordIsKept, KeptAt
  <2>6. AloneAt(i)
    BY DEF ConnectionInv, CallsAlone, AloneAt, Working, Id
  <2> QED
    BY <2>1, <2>2, <2>3, <2>4, <2>5, <2>6 DEF Good
<1> QED
  BY <1>1, <1>2, <1>3 DEF Pieces

LEMMA FromPieces == ASSUME Pieces, stuck \subseteq Calls PROVE ConnectionInv
<1> USE DEF Pieces, Good
<1>0. TypeOK
  BY DEF TypeOK, Typed
<1>1. SessionIsSaved
  BY DEF SavedAt, SessionIsSaved
<1>2. NothingLeaks
  <2> SUFFICES ASSUME NEW a \in Adapters, adapters[a] = "open"
               PROVE  \/ \E i \in Ids : sessions[i] # None /\ sessions[i].adapter = a
                      \/ a \in Calls /\ (At(a, "testing") \/ "overlap" \in faults[Id(a)])
                      \/ a \in Ids /\ "overlap" \in faults[a]
    BY DEF NothingLeaks
  <2>1. CASE a \in Ids
    BY <2>1, ConstantsApart DEF NoLeakAt, Made, Holds
  <2>2. CASE a \in Calls
    <3>1. of[a] \in Ids
      BY <2>2 DEF InOrder
    <3> QED
      BY <2>2, <3>1 DEF NoLeakAt, Made, Holds, At, Id
  <2> QED
    BY <2>1, <2>2 DEF Adapters
<1>3. SessionIsUsable
  BY DEF UsableAt, SessionIsUsable, Id
<1>4. PasswordIsKept
  BY DEF KeptAt, PasswordIsKept
<1>5. CallsInOrder
  <2>1. \A c \in Calls : Under(c) =>
          /\ InCourse(c)
          /\ at[c] \in {"setting", "s3 setting"} => own[c]
          /\ at[c] = "s3 deleting" => ~own[c]
    BY DEF InOrder
  <2>2. \A i \in Ids : sessions[i] # None =>
          sessions[i].adapter \in {i} \cup {c \in Calls : op[c] = "add" /\ Id(c) = i}
    BY DEF AdapterIsOwn, Id
  <2>3. \A c \in Calls : at[c] = "idle" => op[c] = None /\ adapters[c] # "open"
    BY DEF InOrder
  <2>4. \A c \in Calls : at[c] # "idle" => Id(c) \in Ids
    BY DEF InOrder, Id
  <2> QED
    BY <2>1, <2>2, <2>3, <2>4 DEF CallsInOrder
<1>6. CallsAlone
  BY DEF InOrder, AloneAt, Working, CallsAlone, Id, Under
<1> QED
  BY <1>0, <1>1, <1>2, <1>3, <1>4, <1>5, <1>6 DEF ConnectionInv

-----------------------------------------------------------------------------
(* A step of call c about connection i leaves other calls and connections  *)
(* as they are.                                                            *)
Frame(c, i) ==
  /\ i \in Ids /\ of'[c] = i /\ (of[c] = i \/ at[c] = "idle")
  /\ \A j \in Ids : j # i =>
       /\ rows'[j] = rows[j] /\ keyring'[j] = keyring[j] /\ sessions'[j] = sessions[j]
       /\ faults'[j] = faults[j] /\ promised'[j] = promised[j]
  /\ \A d \in Calls : d # c =>
       op'[d] = op[d] /\ of'[d] = of[d] /\ own'[d] = own[d] /\ at'[d] = at[d] /\ got'[d] = got[d]
  /\ \A a \in Adapters : a # c /\ ~Holds(i, a) => adapters'[a] = adapters[a]
  /\ restored /\ restored' = restored /\ todo' = todo /\ migrating' = migrating

(* Of another connection nothing changes: its adapter is not that of i.    *)
LEMMA OthersGood ==
  ASSUME Pieces, NEW c \in Calls, NEW i \in Ids, Frame(c, i), NEW j \in Ids, j # i
  PROVE  Good(j)'
<1>0. Good(j) /\ Good(i) /\ \A d \in Calls : InOrder(d)
  BY DEF Pieces
<1>1. /\ rows'[j] = rows[j] /\ keyring'[j] = keyring[j] /\ sessions'[j] = sessions[j]
      /\ faults'[j] = faults[j] /\ promised'[j] = promised[j]
  BY DEF Frame
<1>2. /\ of'[c] = i /\ (of[c] = i \/ at[c] = "idle")
      /\ \A d \in Calls : d # c =>
           op'[d] = op[d] /\ of'[d] = of[d] /\ own'[d] = own[d] /\ at'[d] = at[d] /\ got'[d] = got[d]
  BY DEF Frame
<1>3. ~Holds(j, c)
  BY ZenonT(60), <1>0, <1>2, ConstantsApart DEF Good, AdapterIsOwn, Holds, InOrder, Operations
<1>4. ASSUME NEW a \in Adapters, a # c, Made(a, j) PROVE adapters'[a] = adapters[a]
  <2>1. ~Holds(i, a)
    BY <1>0, <1>4, ConstantsApart DEF Good, AdapterIsOwn, Holds, Made
  <2> QED
    BY <2>1, <1>4 DEF Frame
<1>5. sessions[j] # None =>
        /\ sessions[j].adapter \in Adapters /\ sessions[j].adapter # c
        /\ adapters'[sessions[j].adapter] = adapters[sessions[j].adapter]
  BY <1>0, <1>3, <1>4 DEF Good, AdapterIsOwn, Holds, Made, Adapters
<1>6. \A d \in Calls : of'[d] = j => d # c
  BY <1>2
<1>7. SavedAt(j)'
  BY <1>0, <1>1 DEF Good, SavedAt
<1>8. NoLeakAt(j)'
  <2> SUFFICES ASSUME NEW a \in Adapters, Made(a, j)', adapters'[a] = "open"
               PROVE  Holds(j, a)' \/ (a \in Calls /\ at'[a] = "testing") \/ "overlap" \in faults'[j]
    BY DEF NoLeakAt
  <2>1. a # c /\ Made(a, j)
    BY <1>2, ConstantsApart DEF Made
  <2>2. adapters[a] = "open"
    BY <2>1, <1>4
  <2>3. Holds(j, a) \/ (a \in Calls /\ at[a] = "testing") \/ "overlap" \in faults[j]
    BY <1>0, <2>1, <2>2 DEF Good, NoLeakAt
  <2> QED
    BY <1>1, <1>2, <2>1, <2>3 DEF Holds
<1>9. UsableAt(j)'
  <2>1. ASSUME NEW d \in Calls, of[d] = j, Closing(d) PROVE of'[d] = j /\ Closing(d)'
    BY <1>2, <2>1 DEF Closing
  <2> QED
    BY <1>0, <1>1, <1>5, <2>1 DEF Good, UsableAt
<1>10. KeptAt(j)'
  BY <1>0, <1>1 DEF Good, KeptAt
<1>11. AdapterIsOwn(j)'
  BY <1>0, <1>1, <1>2, <1>5 DEF Good, AdapterIsOwn
<1>12. AloneAt(j)'
  <2> SUFFICES ASSUME "overlap" \notin faults'[j], NEW d \in Calls, Working(d, j)'
               PROVE  OnlyCall(d)' /\ SeenIsSo(d)'
    BY DEF AloneAt
  <2>1. d # c /\ of'[d] = j /\ of[d] = j /\ Working(d, j)
    BY <1>2 DEF Working, Under
  <2>2. OnlyCall(d) /\ SeenIsSo(d)
    BY <1>0, <1>1, <2>1 DEF Good, AloneAt
  <2>3. OnlyCall(d)'
    BY <1>2, <1>6, <2>1, <2>2 DEF OnlyCall, Under, Id
  <2>4. Closing(d)' /\ sessions'[j] # None => adapters'[sessions'[j].adapter] # "open"
    BY <1>1, <1>2, <1>5, <2>1, <2>2 DEF SeenIsSo, Closing, Id
  <2> QED
    BY ZenonT(60), <1>1, <1>2, <2>1, <2>2, <2>3, <2>4 DEF SeenIsSo, At, Id
<1> QED
  BY <1>7, <1>8, <1>9, <1>10, <1>11, <1>12 DEF Good

(* Nor does anything of another call.                                      *)
LEMMA OthersInOrder ==
  ASSUME Pieces, NEW c \in Calls, NEW i \in Ids, Frame(c, i), NEW d \in Calls, d # c
  PROVE  InOrder(d)'
<1>0. Good(i) /\ InOrder(d)
  BY DEF Pieces
<1>1. op'[d] = op[d] /\ of'[d] = of[d] /\ own'[d] = own[d] /\ at'[d] = at[d]
  BY DEF Frame
<1>2. at[d] = "idle" => ~Holds(i, d)
  BY <1>0, ConstantsApart DEF Good, AdapterIsOwn, Holds, InOrder, Operations
<1>3. at[d] = "idle" => adapters'[d] = adapters[d]
  BY <1>2 DEF Frame, Adapters
<1> QED
  <2>1. (at[d] = "idle") <=> (at'[d] = "idle")
    BY <1>1
  <2>2. Under(d)' <=> Under(d)
    BY <1>1 DEF Under
  <2>3. InCourse(d)' <=> InCourse(d)
    BY <1>1 DEF InCourse
  <2> QED
    BY <1>0, <1>1, <1>3, <2>1, <2>2, <2>3 DEF InOrder

(* So a step of a call is about the call and its connection.               *)
LEMMA CallStepKeeps ==
  ASSUME Pieces, NEW c \in Calls, NEW i \in Ids, Frame(c, i), Typed', InOrder(c)', Good(i)'
  PROVE  Pieces'
<1>1. StartFirst'
  BY DEF Frame, Pieces, StartFirst, Restorable
<1>2. \A d \in Calls : InOrder(d)'
  BY OthersInOrder
<1>3. \A j \in Ids : Good(j)'
  BY OthersGood
<1> QED
  BY <1>1, <1>2, <1>3 DEF Pieces

(* A call under way, and what is known of it when it goes on.              *)
LEMMA OfCall ==
  ASSUME Pieces, NEW c \in Calls, Under(c)
  PROVE  /\ of[c] \in Ids /\ restored /\ Good(of[c])
         /\ InOrder(c) /\ InCourse(c)
         /\ at[c] # "idle" /\ op[c] # None
<1>1. at[c] # "idle"
  BY DEF Under
<1>2. of[c] \in Ids /\ InOrder(c) /\ InCourse(c) /\ restored
  BY <1>1 DEF Pieces, InOrder, StartFirst
<1>3. op[c] # None
  BY <1>2, ConstantsApart DEF InCourse, Operations
<1> QED
  BY <1>1, <1>2, <1>3 DEF Pieces

(* If it was alone with its connection and is no test, it still is.        *)
LEMMA StillAlone ==
  ASSUME Pieces, NEW c \in Calls, NEW i \in Ids, Frame(c, i), of[c] = i,
         Under(c), op[c] # "test",
         "overlap" \in faults'[i] <=> "overlap" \in faults[i],
         Under(c)' /\ "overlap" \notin faults[i] /\ SeenIsSo(c) => SeenIsSo(c)'
  PROVE  AloneAt(i)'
<1> SUFFICES ASSUME "overlap" \notin faults'[i], NEW d \in Calls, Working(d, i)'
             PROVE  OnlyCall(d)' /\ SeenIsSo(d)'
  BY DEF AloneAt
<1>0. Good(i)
  BY DEF Pieces
<1>1. OnlyCall(c) /\ SeenIsSo(c)
  BY <1>0 DEF Good, AloneAt, Working
<1>2. \A e \in Calls : e # c => (Working(e, i)' <=> Working(e, i))
  BY DEF Frame, Working, Under
<1>3. \A e \in Calls : Working(e, i)' => e = c
  BY <1>1, <1>2 DEF OnlyCall, Working, Id
<1>4. of'[c] = i
  BY DEF Frame
<1> QED
  BY <1>1, <1>3, <1>4 DEF OnlyCall, Working, Id

(* What a step that leaves sessions and adapters does to the adapters.     *)
LEMMA AdaptersStay ==
  ASSUME Pieces, NEW c \in Calls, NEW i \in Ids, Frame(c, i), of[c] = i,
         adapters' = adapters, sessions'[i] = sessions[i], at[c] # "testing",
         op'[c] = op[c],
         "overlap" \in faults[i] => "overlap" \in faults'[i]
  PROVE  NoLeakAt(i)' /\ AdapterIsOwn(i)'
<1>0. NoLeakAt(i) /\ AdapterIsOwn(i)
  BY DEF Pieces, Good
<1>1. NoLeakAt(i)'
  BY <1>0 DEF NoLeakAt, Made, Holds, Frame
<1>2. AdapterIsOwn(i)'
  BY <1>0 DEF AdapterIsOwn, Frame
<1> QED
  BY <1>1, <1>2

-----------------------------------------------------------------------------
(* A call that begins: what Begin does, and what no call has that is idle. *)
Begun(c, what, i, with, place) ==
  /\ op'[c] = what /\ of'[c] = i /\ own'[c] = with /\ at'[c] = place
  /\ at[c] = "idle" /\ restored /\ i \in Ids
  /\ \A d \in Calls : d # c =>
       op'[d] = op[d] /\ of'[d] = of[d] /\ own'[d] = own[d] /\ at'[d] = at[d]
  /\ \A j \in Ids : j # i => faults'[j] = faults[j] /\ promised'[j] = promised[j]
  /\ \A f \in Faults : f # "overlap" => (f \in faults'[i] <=> f \in faults[i])
  /\ "overlap" \in faults'[i] <=> "overlap" \in faults[i] \/ (what # "test" /\ Busy(i))
  /\ promised'[i] = None \/ promised'[i] = promised[i]
  /\ what # "test" /\ (with \/ what # "add") => promised'[i] = None
  /\ \A j \in Ids : ~Holds(j, c)
  /\ adapters[c] # "open"
  /\ op' \in [Calls -> Operations \cup {None}] /\ of' \in [Calls -> Ids \cup {None}]
  /\ own' \in [Calls -> BOOLEAN] /\ at' \in [Calls -> Places]
  /\ faults' \in [Ids -> SUBSET Faults] /\ promised' \in [Ids -> Calls \cup {None}]

LEMMA BeginDoes ==
  ASSUME Pieces, NEW c \in Calls, NEW i \in Touched, NEW what \in Operations,
         NEW with \in BOOLEAN, NEW place \in Places, Begin(c, what, i, with, place)
  PROVE  Begun(c, what, i, with, place)
<1>0. i \in Ids /\ Typed
  BY ConstantsApart DEF Pieces
<1>1. at[c] = "idle" /\ restored
  BY DEF Begin, At
<1>2. /\ op'[c] = what /\ of'[c] = i /\ own'[c] = with /\ at'[c] = place
      /\ \A d \in Calls : d # c =>
           op'[d] = op[d] /\ of'[d] = of[d] /\ own'[d] = own[d] /\ at'[d] = at[d]
      /\ op' \in [Calls -> Operations \cup {None}] /\ of' \in [Calls -> Ids \cup {None}]
      /\ own' \in [Calls -> BOOLEAN] /\ at' \in [Calls -> Places]
  BY <1>0 DEF Begin, Typed
<1>3. /\ \A j \in Ids : j # i => faults'[j] = faults[j]
      /\ \A f \in Faults : f # "overlap" => (f \in faults'[i] <=> f \in faults[i])
      /\ faults' \in [Ids -> SUBSET Faults]
  BY <1>0 DEF Begin, Fault, Typed, Faults
<1>4. "overlap" \in faults'[i] <=> "overlap" \in faults[i] \/ (what # "test" /\ Busy(i))
  BY <1>0 DEF Begin, Fault, Typed
<1>5. /\ \A j \in Ids : j # i => promised'[j] = promised[j]
      /\ promised'[i] = None \/ promised'[i] = promised[i]
      /\ what # "test" /\ (with \/ what # "add") => promised'[i] = None
      /\ promised' \in [Ids -> Calls \cup {None}]
  BY <1>0 DEF Begin, Typed
<1>6. op[c] = None /\ adapters[c] # "open"
  BY <1>1 DEF Pieces, InOrder
<1>7. \A j \in Ids : ~Holds(j, c)
  BY <1>6, ConstantsApart DEF Pieces, Good, AdapterIsOwn, Holds, Operations
<1> QED
  BY <1>0, <1>1, <1>2, <1>3, <1>4, <1>5, <1>6, <1>7 DEF Begun

(* What may come with it: sessions stay; the adapter of the session of i   *)
(* is closed if the call waits for that, and its row goes if it has none.  *)
LEMMA BeginKeeps ==
  ASSUME Pieces, NEW c \in Calls, NEW i \in Touched, NEW what \in Operations,
         NEW with \in BOOLEAN, NEW place \in Places, Begin(c, what, i, with, place),
         keyring' = keyring, got' = got, sessions' = sessions,
         restored' = restored, todo' = todo, migrating' = migrating, restarts' = restarts,
         rows' \in [Ids -> Row \cup {None}], \A j \in Ids : j # i => rows'[j] = rows[j],
         rows'[i] = rows[i] \/ sessions[i] = None,
         adapters' \in [Adapters -> {"none", "open", "closed"}],
         \/ adapters' = adapters /\ (place = "s3 closing" \/ place = "removing" => sessions[i] = None)
         \/ /\ place = "s3 closing" \/ place = "removing"
            /\ \A a \in Adapters : adapters'[a] = IF Holds(i, a) THEN "closed" ELSE adapters[a],
         what = "test" => adapters' = adapters /\ place = "reading",
         what = "add" => place = "reading" \/ (place = "setting" /\ with),
         what = "remove" => place = "removing" \/ place = "deleting",
         what = "s3" => \/ place = "s3 closing" \/ place = "failed"
                        \/ sessions[i] = None /\ with /\ place = "s3 setting"
                        \/ sessions[i] = None /\ ~with /\ (place = "s3 reading" \/ place = "s3 deleting")
  PROVE  Pieces'
<1>0. Begun(c, what, i, with, place)
  BY BeginDoes
<1>1. Good(i) /\ i \in Ids
  BY <1>0 DEF Begun, Pieces
<1>2. /\ op'[c] = what /\ of'[c] = i /\ own'[c] = with /\ at'[c] = place
      /\ at[c] = "idle" /\ restored
      /\ \A d \in Calls : d # c =>
           op'[d] = op[d] /\ of'[d] = of[d] /\ own'[d] = own[d] /\ at'[d] = at[d]
  BY <1>0 DEF Begun
<1>3. /\ "unsaved" \in faults'[i] <=> "unsaved" \in faults[i]
      /\ "unread" \in faults'[i] <=> "unread" \in faults[i]
      /\ "broken" \in faults'[i] <=> "broken" \in faults[i]
      /\ "overlap" \in faults'[i] <=> "overlap" \in faults[i] \/ (what # "test" /\ Busy(i))
  BY <1>0 DEF Begun, Faults
<1>4. /\ promised'[i] = None \/ promised'[i] = promised[i]
      /\ what # "test" /\ (with \/ what # "add") => promised'[i] = None
  BY <1>0 DEF Begun
<1>5. ~Holds(i, c) /\ adapters[c] # "open"
  BY <1>0, <1>1 DEF Begun
<1>6. \A a \in Adapters : adapters'[a] = adapters[a] \/ (Holds(i, a) /\ adapters'[a] = "closed")
  OBVIOUS
<1>7. Frame(c, i)
  <2>1. \A j \in Ids : j # i => faults'[j] = faults[j] /\ promised'[j] = promised[j]
    BY <1>0 DEF Begun
  <2> QED
    BY <1>1, <1>2, <1>6, <2>1 DEF Frame
<1>8. Typed'
  BY <1>0 DEF Begun, Pieces, Typed
<1>9. InOrder(c)'
  BY <1>1, <1>2 DEF InOrder, InCourse, Under, Operations
<1>10. Good(i)'
  <2>1. SavedAt(i)'
    BY <1>1, <1>3 DEF Good, SavedAt
  <2>2. NoLeakAt(i)'
    <3> SUFFICES ASSUME NEW a \in Adapters, Made(a, i)', adapters'[a] = "open"
                 PROVE  Holds(i, a)' \/ (a \in Calls /\ at'[a] = "testing") \/ "overlap" \in faults'[i]
      BY DEF NoLeakAt
    <3>1. adapters[a] = "open" /\ a # c
      BY <1>5, <1>6
    <3>2. Made(a, i)
      BY <1>2, <3>1 DEF Made
    <3> QED
      BY <1>1, <1>2, <1>3, <3>1, <3>2 DEF Good, NoLeakAt, Holds
  <2>3. UsableAt(i)'
    <3> SUFFICES ASSUME sessions[i] # None, "overlap" \notin faults'[i], "broken" \notin faults'[i]
                 PROVE  \/ adapters'[sessions[i].adapter] = "open"
                        \/ \E d \in Calls : of'[d] = i /\ Closing(d)'
      BY DEF UsableAt
    <3>1. CASE adapters' = adapters
      <4>1. ASSUME NEW d \in Calls, Closing(d) PROVE of'[d] = of[d] /\ Closing(d)'
        BY <1>2, <4>1 DEF Closing
      <4> QED
        BY <1>1, <1>3, <3>1, <4>1 DEF Good, UsableAt
    <3>2. CASE place = "s3 closing" \/ place = "removing"
      BY <1>2, <3>2 DEF Closing
    <3> QED
      BY <3>1, <3>2
  <2>4. KeptAt(i)'
    BY <1>1, <1>3, <1>4 DEF Good, KeptAt
  <2>5. AdapterIsOwn(i)'
    BY <1>1, <1>2, <1>5 DEF Good, AdapterIsOwn, Holds
  <2>6. AloneAt(i)'
    <3> SUFFICES ASSUME "overlap" \notin faults'[i], NEW d \in Calls, Working(d, i)'
                 PROVE  OnlyCall(d)' /\ SeenIsSo(d)'
      BY DEF AloneAt
    <3>1. \A e \in Calls : e # c => (Working(e, i)' <=> Working(e, i)) /\ (Under(e)' <=> Under(e)) /\ (Closing(e)' <=> Closing(e))
      BY <1>2 DEF Working, Under, Closing
    <3>2. CASE what = "test"
      <4>1. d # c /\ Working(d, i)
        BY <1>2, <3>1, <3>2 DEF Working
      <4>2. OnlyCall(d) /\ SeenIsSo(d) /\ of[d] = i
        BY <1>1, <1>3, <4>1 DEF Good, AloneAt, Working
      <4>3. OnlyCall(d)'
        BY <1>2, <3>1, <3>2, <4>1, <4>2 DEF OnlyCall, Id
      <4>4. SeenIsSo(d)'
        BY <1>2, <1>4, <3>1, <3>2, <4>1, <4>2 DEF SeenIsSo, At, Id
      <4> QED
        BY <4>3, <4>4
    <3>3. CASE what # "test"
      <4>1. \A e \in Calls : ~Working(e, i)
        BY <1>3, <3>3 DEF Busy, Working
      <4>2. d = c
        BY <3>1, <4>1
      <4>3. OnlyCall(c)'
        BY <1>2, <3>1, <4>1 DEF OnlyCall, Working, Id
      <4>4. SeenIsSo(c)'
        <5>1. at'[c] = place /\ of'[c] = i /\ own'[c] = with /\ op'[c] = what
          BY <1>2
        <5>2. Closing(c)' /\ sessions'[i] # None => adapters'[sessions'[i].adapter] # "open"
          BY <1>1, <3>3, <5>1 DEF Closing, Operations, Good, AdapterIsOwn, Holds, Adapters
        <5>3. place # "closing"
          BY <3>3 DEF Operations
        <5>4. (place = "s3 setting" \/ place = "s3 reading" \/ place = "s3 deleting")
                => sessions[i] = None /\ ~(place = "s3 reading" /\ with)
          BY <3>3 DEF Operations
        <5>5. with \/ what # "add" => promised'[i] = None
          BY <1>4, <3>3
        <5> QED
          BY <5>1, <5>2, <5>3, <5>4, <5>5 DEF SeenIsSo, At, Id
      <4> QED
        BY <4>2, <4>3, <4>4
    <3> QED
      BY <3>2, <3>3
  <2> QED
    BY <2>1, <2>2, <2>3, <2>4, <2>5, <2>6 DEF Good
<1> QED
  BY <1>1, <1>7, <1>8, <1>9, <1>10, CallStepKeeps

(* The four beginnings.                                                    *)
LEMMA StartAddKeeps == ASSUME Pieces, NEW c \in Calls, NEW i \in Touched, StartAdd(c, i) PROVE Pieces'
<1>1. PICK with \in BOOLEAN : Begin(c, "add", i, with, IF with THEN "setting" ELSE "reading")
  BY DEF StartAdd
<1>2. /\ rows' = rows /\ keyring' = keyring /\ sessions' = sessions /\ adapters' = adapters /\ got' = got
      /\ restored' = restored /\ todo' = todo /\ migrating' = migrating /\ restarts' = restarts
  BY DEF StartAdd, boot
<1>3. rows' \in [Ids -> Row \cup {None}] /\ adapters' \in [Adapters -> {"none", "open", "closed"}]
  BY <1>2 DEF Pieces, Typed
<1>4. CASE with
  <2>1. Begin(c, "add", i, with, "setting")
    BY <1>1, <1>4
  <2> QED
    BY ONLY Pieces, <1>2, <1>3, <1>4, <2>1, BeginKeeps DEF Operations, Places
<1>5. CASE ~with
  <2>1. Begin(c, "add", i, with, "reading")
    BY <1>1, <1>5
  <2> QED
    BY <1>2, <1>3, <1>5, <2>1, BeginKeeps DEF Operations, Places
<1> QED
  BY <1>4, <1>5

LEMMA StartTestKeeps == ASSUME Pieces, NEW c \in Calls, NEW i \in Touched, StartTest(c, i) PROVE Pieces'
<1>1. Begin(c, "test", i, FALSE, "reading")
  BY DEF StartTest
<1>2. /\ rows' = rows /\ keyring' = keyring /\ sessions' = sessions /\ adapters' = adapters /\ got' = got
      /\ restored' = restored /\ todo' = todo /\ migrating' = migrating /\ restarts' = restarts
  BY DEF StartTest, boot
<1>3. rows' \in [Ids -> Row \cup {None}] /\ adapters' \in [Adapters -> {"none", "open", "closed"}]
  BY <1>2 DEF Pieces, Typed
<1>4. "test" \in Operations /\ "reading" \in Places /\ FALSE \in BOOLEAN
  BY DEF Operations, Places
<1> QED
  BY <1>1, <1>2, <1>3, <1>4, BeginKeeps

(* What closing the previous adapter does, by adapter.                     *)
LEMMA Closes ==
  ASSUME Pieces, NEW i \in Ids, sessions[i] # None, ClosePrevious(i)
  PROVE  /\ adapters' \in [Adapters -> {"none", "open", "closed"}]
         /\ \A a \in Adapters : adapters'[a] = IF Holds(i, a) THEN "closed" ELSE adapters[a]
<1>1. PICK s \in Adapters : s = sessions[i].adapter
  BY DEF Pieces, Good, AdapterIsOwn, Adapters
<1>2. adapters' = [adapters EXCEPT ![s] = "closed"]
  BY <1>1 DEF ClosePrevious
<1>3. adapters \in [Adapters -> {"none", "open", "closed"}]
  BY DEF Pieces, Typed
<1> QED
  BY <1>1, <1>2, <1>3 DEF Holds

LEMMA StartS3Keeps == ASSUME Pieces, NEW c \in Calls, NEW i \in Touched, StartS3(c, i) PROVE Pieces'
<1>0. i \in Ids /\ "s3" \in Operations
  BY ConstantsApart DEF Operations
<1>1. /\ rows' = rows /\ keyring' = keyring /\ got' = got
      /\ restored' = restored /\ todo' = todo /\ migrating' = migrating /\ restarts' = restarts
  BY DEF StartS3, boot
<1>2. rows' \in [Ids -> Row \cup {None}] /\ adapters \in [Adapters -> {"none", "open", "closed"}]
  BY <1>1 DEF Pieces, Typed
<1>3. CASE sessions[i] # None
  <2>1. PICK with \in BOOLEAN : Begin(c, "s3", i, with, "s3 closing")
    BY <1>3 DEF StartS3
  <2>2. ClosePrevious(i) /\ sessions' = sessions
    BY <1>3 DEF StartS3
  <2>3. /\ adapters' \in [Adapters -> {"none", "open", "closed"}]
        /\ \A a \in Adapters : adapters'[a] = IF Holds(i, a) THEN "closed" ELSE adapters[a]
    BY <1>0, <1>3, <2>2, Closes
  <2>4. "s3 closing" \in Places
    BY DEF Places
  <2> QED
    BY <1>0, <1>1, <1>2, <2>1, <2>2, <2>3, <2>4, BeginKeeps
<1>4. CASE sessions[i] = None
  <2>1. PICK with \in BOOLEAN : \E place \in S3Password(with) : Begin(c, "s3", i, with, place)
    BY <1>4 DEF StartS3
  <2>2. PICK place \in S3Password(with) : Begin(c, "s3", i, with, place)
    BY <2>1
  <2>3. sessions' = sessions /\ adapters' = adapters
    BY <1>4 DEF StartS3
  <2>4. /\ place \in Places
        /\ \/ place = "failed" \/ (with /\ place = "s3 setting")
           \/ ~with /\ (place = "s3 reading" \/ place = "s3 deleting")
    BY <2>2 DEF S3Password, Places
  <2>5. adapters' \in [Adapters -> {"none", "open", "closed"}]
    BY <1>2, <2>3
  <2> QED
    BY <1>0, <1>1, <1>2, <1>4, <2>2, <2>3, <2>4, <2>5, BeginKeeps
<1> QED
  BY <1>3, <1>4

LEMMA StartRemoveKeeps == ASSUME Pieces, NEW c \in Calls, NEW i \in Touched, StartRemove(c, i) PROVE Pieces'
<1>0. i \in Ids /\ "remove" \in Operations /\ "removing" \in Places /\ "deleting" \in Places /\ FALSE \in BOOLEAN
  BY ConstantsApart DEF Operations, Places
<1>1. /\ keyring' = keyring /\ got' = got
      /\ restored' = restored /\ todo' = todo /\ migrating' = migrating /\ restarts' = restarts
  BY DEF StartRemove, boot
<1>2. /\ rows \in [Ids -> Row \cup {None}] /\ adapters \in [Adapters -> {"none", "open", "closed"}]
      /\ sessions \in [Ids -> Session \cup {None}]
  BY DEF Pieces, Typed
<1>3. CASE sessions[i] # None
  <2>1. Begin(c, "remove", i, FALSE, "removing") /\ ClosePrevious(i) /\ sessions' = sessions /\ rows' = rows
    BY <1>3 DEF StartRemove
  <2>2. /\ adapters' \in [Adapters -> {"none", "open", "closed"}]
        /\ \A a \in Adapters : adapters'[a] = IF Holds(i, a) THEN "closed" ELSE adapters[a]
    BY <1>0, <1>3, <2>1, Closes
  <2> QED
    BY <1>0, <1>1, <1>2, <2>1, <2>2, BeginKeeps
<1>4. CASE sessions[i] = None
  <2>1. /\ Begin(c, "remove", i, FALSE, "deleting") /\ adapters' = adapters
        /\ sessions' = [sessions EXCEPT ![i] = None] /\ rows' = [rows EXCEPT ![i] = None]
    BY <1>4 DEF StartRemove, Drop, Forget
  <2>2. sessions' = sessions
    BY <1>0, <1>2, <1>4, <2>1
  <2>3. /\ rows' \in [Ids -> Row \cup {None}] /\ \A j \in Ids : j # i => rows'[j] = rows[j]
        /\ adapters' \in [Adapters -> {"none", "open", "closed"}]
    BY <1>0, <1>2, <2>1
  <2> QED
    BY <1>0, <1>1, <1>4, <2>1, <2>2, <2>3, BeginKeeps
<1> QED
  BY <1>3, <1>4

-----------------------------------------------------------------------------
(* A step of a call is about one connection, i: what it does there, that   *)
(* it leaves the rest, and each part of the invariant at i.                *)

(* The password goes to the keyring, or cannot.                            *)
LEMMA SetPasswordKeeps == ASSUME Pieces, NEW c \in Calls, SetPassword(c) PROVE Pieces'
<1>0. Under(c) /\ op[c] # "test" /\ own[c]
  BY DEF SetPassword, At, Under, Pieces, InOrder, InCourse
<1>i. PICK i \in Ids : i = of[c]
  BY <1>0, OfCall
<1>a. i = of[c] /\ restored /\ Good(i) /\ InOrder(c)
  BY <1>0, <1>i, OfCall
<1>1. /\ op' = op /\ of' = of /\ own' = own
      /\ (at[c] = "setting" /\ at' = [at EXCEPT ![c] = "reading"]) \/ (at[c] = "s3 setting" /\ at' = [at EXCEPT ![c] = "s3 reading"])
      /\ keyring' = [keyring EXCEPT ![i] = c]
      /\ got' = got /\ rows' = rows /\ sessions' = sessions /\ adapters' = adapters /\ faults' = faults /\ promised' = promised
      /\ restored' = restored /\ todo' = todo /\ migrating' = migrating /\ restarts' = restarts
  BY <1>i DEF SetPassword, Goto, At, Id, boot, aux
<1>2. /\ (at[c] = "setting" /\ at'[c] = "reading") \/ (at[c] = "s3 setting" /\ at'[c] = "s3 reading")
      /\ \A d \in Calls : d # c => at'[d] = at[d]
      /\ keyring'[i] = c
      /\ \A j \in Ids : j # i => keyring'[j] = keyring[j]
  BY <1>1, <1>i DEF Pieces, Typed
<1>3. Frame(c, i)
  BY <1>1, <1>2, <1>a DEF Frame
<1>4. Typed'
  <2>1. at' \in [Calls -> Places]
    BY <1>1 DEF Pieces, Typed, Places
  <2>2. keyring' \in [Ids -> Secrets \cup {None}]
    BY <1>1 DEF Pieces, Typed, Secrets
  <2> QED
    BY <1>1, <2>1, <2>2 DEF Pieces, Typed
<1>5. InOrder(c)'
  BY <1>1, <1>2, <1>a DEF InOrder, InCourse, Under
<1>6. Good(i)'
  <2>1. NoLeakAt(i)' /\ AdapterIsOwn(i)'
    BY <1>1, <1>2, <1>3, <1>a, AdaptersStay
  <2>2. SavedAt(i)'
    BY <1>1, <1>2, <1>a DEF Good, SavedAt
  <2>3. UsableAt(i)'
    BY <1>1, <1>2, <1>a DEF Good, UsableAt, Closing
  <2>4. KeptAt(i)'
    BY <1>0, <1>1, <1>2, <1>a DEF Good, KeptAt, AloneAt, Working, SeenIsSo, Id
  <2>5. Under(c)' /\ "overlap" \notin faults[i] /\ SeenIsSo(c) => SeenIsSo(c)'
    BY <1>0, <1>1, <1>2, <1>a DEF SeenIsSo, Closing, Under, At, Id
  <2>6. AloneAt(i)'
    BY <1>0, <1>1, <1>2, <1>3, <1>a, <2>5, StillAlone
  <2> QED
    BY <2>1, <2>2, <2>3, <2>4, <2>6 DEF Good
<1> QED
  BY <1>3, <1>4, <1>5, <1>6, <1>a, CallStepKeeps

LEMMA SetFailsKeeps == ASSUME Pieces, NEW c \in Calls, SetFails(c) PROVE Pieces'
<1>0. Under(c) /\ op[c] # "test"
  BY DEF SetFails, At, Under, Pieces, InOrder, InCourse
<1>i. PICK i \in Ids : i = of[c]
  BY <1>0, OfCall
<1>a. i = of[c] /\ restored /\ Good(i) /\ InOrder(c)
  BY <1>0, <1>i, OfCall
<1>1. /\ op' = op /\ of' = of /\ own' = own
      /\ (at[c] = "setting" /\ at' = [at EXCEPT ![c] = "failed"]) \/ (at[c] = "s3 setting" /\ at' = [at EXCEPT ![c] = "failed"])
      /\ got' = got /\ keyring' = keyring /\ rows' = rows /\ sessions' = sessions /\ adapters' = adapters /\ faults' = faults /\ promised' = promised
      /\ restored' = restored /\ todo' = todo /\ migrating' = migrating /\ restarts' = restarts
  BY <1>i DEF SetFails, Goto, At, Id, boot, aux
<1>2. /\ (at[c] = "setting" /\ at'[c] = "failed") \/ (at[c] = "s3 setting" /\ at'[c] = "failed")
      /\ \A d \in Calls : d # c => at'[d] = at[d]
  BY <1>1, <1>i DEF Pieces, Typed
<1>3. Frame(c, i)
  BY <1>1, <1>2, <1>a DEF Frame
<1>4. Typed'
  <2>1. at' \in [Calls -> Places]
    BY <1>1 DEF Pieces, Typed, Places
  <2> QED
    BY <1>1, <2>1 DEF Pieces, Typed
<1>5. InOrder(c)'
  BY <1>1, <1>2, <1>a DEF InOrder, InCourse, Under
<1>6. Good(i)'
  <2>1. NoLeakAt(i)' /\ AdapterIsOwn(i)'
    BY <1>1, <1>2, <1>3, <1>a, AdaptersStay
  <2>2. SavedAt(i)'
    BY <1>1, <1>2, <1>a DEF Good, SavedAt
  <2>3. UsableAt(i)'
    BY <1>1, <1>2, <1>a DEF Good, UsableAt, Closing
  <2>4. KeptAt(i)'
    BY <1>0, <1>1, <1>2, <1>a DEF Good, KeptAt, AloneAt, Working, SeenIsSo, Id
  <2>5. Under(c)' /\ "overlap" \notin faults[i] /\ SeenIsSo(c) => SeenIsSo(c)'
    BY <1>0, <1>1, <1>2, <1>a DEF SeenIsSo, Closing, Under, At, Id
  <2>6. AloneAt(i)'
    BY <1>0, <1>1, <1>2, <1>3, <1>a, <2>5, StillAlone
  <2> QED
    BY <2>1, <2>2, <2>3, <2>4, <2>6 DEF Good
<1> QED
  BY <1>3, <1>4, <1>5, <1>6, <1>a, CallStepKeeps

(* It cannot be read back.                                                 *)
LEMMA ReadRefusedKeeps == ASSUME Pieces, NEW c \in Calls, ReadRefused(c) PROVE Pieces'
<1>0. Under(c) /\ op[c] # "test"
  BY DEF ReadRefused, At, Under, Pieces, InOrder, InCourse
<1>i. PICK i \in Ids : i = of[c]
  BY <1>0, OfCall
<1>a. i = of[c] /\ restored /\ Good(i) /\ InOrder(c)
  BY <1>0, <1>i, OfCall
<1>1. /\ op' = op /\ of' = of /\ own' = own
      /\ at[c] = "reading" /\ at' = [at EXCEPT ![c] = "failed"]
      /\ got' = got /\ keyring' = keyring /\ rows' = rows /\ sessions' = sessions /\ adapters' = adapters /\ faults' = faults /\ promised' = promised
      /\ restored' = restored /\ todo' = todo /\ migrating' = migrating /\ restarts' = restarts
  BY <1>i DEF ReadRefused, Goto, At, Id, boot, aux
<1>2. /\ at[c] = "reading" /\ at'[c] = "failed"
      /\ \A d \in Calls : d # c => at'[d] = at[d]
  BY <1>1, <1>i DEF Pieces, Typed
<1>3. Frame(c, i)
  BY <1>1, <1>2, <1>a DEF Frame
<1>4. Typed'
  <2>1. at' \in [Calls -> Places]
    BY <1>1 DEF Pieces, Typed, Places
  <2> QED
    BY <1>1, <2>1 DEF Pieces, Typed
<1>5. InOrder(c)'
  BY <1>1, <1>2, <1>a DEF InOrder, InCourse, Under
<1>6. Good(i)'
  <2>1. NoLeakAt(i)' /\ AdapterIsOwn(i)'
    BY <1>1, <1>2, <1>3, <1>a, AdaptersStay
  <2>2. SavedAt(i)'
    BY <1>1, <1>2, <1>a DEF Good, SavedAt
  <2>3. UsableAt(i)'
    BY <1>1, <1>2, <1>a DEF Good, UsableAt, Closing
  <2>4. KeptAt(i)'
    BY <1>0, <1>1, <1>2, <1>a DEF Good, KeptAt, AloneAt, Working, SeenIsSo, Id
  <2>5. Under(c)' /\ "overlap" \notin faults[i] /\ SeenIsSo(c) => SeenIsSo(c)'
    BY <1>0, <1>1, <1>2, <1>a DEF SeenIsSo, Closing, Under, At, Id
  <2>6. AloneAt(i)'
    BY <1>0, <1>1, <1>2, <1>3, <1>a, <2>5, StillAlone
  <2> QED
    BY <2>1, <2>2, <2>3, <2>4, <2>6 DEF Good
<1> QED
  BY <1>3, <1>4, <1>5, <1>6, <1>a, CallStepKeeps

(* No adapter can be made: the session keeps the closed one, as "broken".  *)
LEMMA MakeFailsKeeps == ASSUME Pieces, NEW c \in Calls, MakeFails(c) PROVE Pieces'
<1>0. Under(c) /\ op[c] # "test"
  BY DEF MakeFails, At, Under, Pieces, InOrder, InCourse
<1>i. PICK i \in Ids : i = of[c]
  BY <1>0, OfCall
<1>a. i = of[c] /\ restored /\ Good(i) /\ InOrder(c)
  BY <1>0, <1>i, OfCall
<1>1. /\ op' = op /\ of' = of /\ own' = own
      /\ (at[c] = "closing" /\ at' = [at EXCEPT ![c] = "failed"]) \/ (at[c] = "reading" /\ at' = [at EXCEPT ![c] = "failed"])
      /\ (faults' = [faults EXCEPT ![i] = @ \cup {"broken"}] \/ (at[c] = "reading" /\ faults' = faults))
      /\ got' = got /\ keyring' = keyring /\ rows' = rows /\ sessions' = sessions /\ adapters' = adapters /\ promised' = promised
      /\ restored' = restored /\ todo' = todo /\ migrating' = migrating /\ restarts' = restarts
  BY <1>i DEF MakeFails, Goto, Fault, At, Id, boot, aux
<1>2. /\ (at[c] = "closing" /\ at'[c] = "failed") \/ (at[c] = "reading" /\ at'[c] = "failed")
      /\ \A d \in Calls : d # c => at'[d] = at[d]
      /\ "overlap" \in faults'[i] <=> "overlap" \in faults[i]
      /\ "unsaved" \in faults'[i] <=> "unsaved" \in faults[i]
      /\ "unread" \in faults'[i] <=> "unread" \in faults[i]
      /\ "broken" \in faults'[i] \/ (at[c] = "reading" /\ faults'[i] = faults[i])
      /\ \A j \in Ids : j # i => faults'[j] = faults[j]
  BY <1>1, <1>i DEF Pieces, Typed
<1>3. Frame(c, i)
  BY <1>1, <1>2, <1>a DEF Frame
<1>4. Typed'
  <2>1. at' \in [Calls -> Places]
    BY <1>1 DEF Pieces, Typed, Places
  <2>2. faults' \in [Ids -> SUBSET Faults]
    BY <1>1 DEF Pieces, Typed, Faults
  <2> QED
    BY <1>1, <2>1, <2>2 DEF Pieces, Typed
<1>5. InOrder(c)'
  BY <1>1, <1>2, <1>a DEF InOrder, InCourse, Under
<1>6. Good(i)'
  <2>1. NoLeakAt(i)' /\ AdapterIsOwn(i)'
    BY <1>1, <1>2, <1>3, <1>a, AdaptersStay
  <2>2. SavedAt(i)'
    BY <1>1, <1>2, <1>a DEF Good, SavedAt
  <2>3. UsableAt(i)'
    BY <1>1, <1>2, <1>a DEF Good, UsableAt, Closing
  <2>4. KeptAt(i)'
    BY <1>0, <1>1, <1>2, <1>a DEF Good, KeptAt, AloneAt, Working, SeenIsSo, Id
  <2>5. Under(c)' /\ "overlap" \notin faults[i] /\ SeenIsSo(c) => SeenIsSo(c)'
    BY <1>0, <1>1, <1>2, <1>a DEF SeenIsSo, Closing, Under, At, Id
  <2>6. AloneAt(i)'
    BY <1>0, <1>1, <1>2, <1>3, <1>a, <2>5, StillAlone
  <2> QED
    BY <2>1, <2>2, <2>3, <2>4, <2>6 DEF Good
<1> QED
  BY <1>3, <1>4, <1>5, <1>6, <1>a, CallStepKeeps

(* The last step of connection.remove.                                     *)
LEMMA RemoveDoneKeeps == ASSUME Pieces, NEW c \in Calls, RemoveDone(c) PROVE Pieces'
<1>0. Under(c) /\ op[c] = "remove" /\ op[c] # "test"
  BY DEF RemoveDone, At, Under, Pieces, InOrder, InCourse
<1>i. PICK i \in Ids : i = of[c]
  BY <1>0, OfCall
<1>a. i = of[c] /\ restored /\ Good(i) /\ InOrder(c)
  BY <1>0, <1>i, OfCall
<1>1. /\ op' = op /\ of' = of /\ own' = own
      /\ at[c] = "deleting" /\ at' = [at EXCEPT ![c] = "done"]
      /\ (keyring' = keyring \/ keyring' = [keyring EXCEPT ![i] = None])
      /\ got' = got /\ rows' = rows /\ sessions' = sessions /\ adapters' = adapters /\ faults' = faults /\ promised' = promised
      /\ restored' = restored /\ todo' = todo /\ migrating' = migrating /\ restarts' = restarts
  BY <1>i DEF RemoveDone, Goto, DeletePassword, At, Id, boot, aux
<1>2. /\ at[c] = "deleting" /\ at'[c] = "done"
      /\ \A d \in Calls : d # c => at'[d] = at[d]
      /\ \A j \in Ids : j # i => keyring'[j] = keyring[j]
  BY <1>1, <1>i DEF Pieces, Typed
<1>3. Frame(c, i)
  BY <1>1, <1>2, <1>a DEF Frame
<1>4. Typed'
  <2>1. at' \in [Calls -> Places]
    BY <1>1 DEF Pieces, Typed, Places
  <2>2. keyring' \in [Ids -> Secrets \cup {None}]
    BY <1>1 DEF Pieces, Typed, Secrets
  <2> QED
    BY <1>1, <2>1, <2>2 DEF Pieces, Typed
<1>5. InOrder(c)'
  BY <1>1, <1>2, <1>a DEF InOrder, InCourse, Under
<1>6. Good(i)'
  <2>1. NoLeakAt(i)' /\ AdapterIsOwn(i)'
    BY <1>1, <1>2, <1>3, <1>a, AdaptersStay
  <2>2. SavedAt(i)'
    BY <1>1, <1>2, <1>a DEF Good, SavedAt
  <2>3. UsableAt(i)'
    BY <1>1, <1>2, <1>a DEF Good, UsableAt, Closing
  <2>4. KeptAt(i)'
    BY <1>0, <1>1, <1>2, <1>a DEF Good, KeptAt, AloneAt, Working, SeenIsSo, Id
  <2>5. Under(c)' /\ "overlap" \notin faults[i] /\ SeenIsSo(c) => SeenIsSo(c)'
    BY <1>0, <1>1, <1>2, <1>a DEF SeenIsSo, Closing, Under, At, Id
  <2>6. AloneAt(i)'
    BY <1>0, <1>1, <1>2, <1>3, <1>a, <2>5, StillAlone
  <2> QED
    BY <2>1, <2>2, <2>3, <2>4, <2>6 DEF Good
<1> QED
  BY <1>3, <1>4, <1>5, <1>6, <1>a, CallStepKeeps

(* The steps of connection.add for S3: a promise is made where the keyring *)
(* is known to hold the key of the call.                                   *)
LEMMA S3DeletedKeeps == ASSUME Pieces, NEW c \in Calls, S3Deleted(c) PROVE Pieces'
<1>0. Under(c) /\ op[c] = "s3" /\ op[c] # "test" /\ ~own[c]
  BY DEF S3Deleted, At, Under, Pieces, InOrder, InCourse
<1>i. PICK i \in Ids : i = of[c]
  BY <1>0, OfCall
<1>a. i = of[c] /\ restored /\ Good(i) /\ InOrder(c)
  BY <1>0, <1>i, OfCall
<1>r. PICK row \in Row : row = [config |-> c, kind |-> "s3"]
  BY RowOf DEF Secrets, Kinds
<1>s. row # None /\ row.kind = "s3"
  BY <1>r, RowOf DEF Secrets, Kinds
<1>1. /\ op' = op /\ of' = of /\ own' = own
      /\ (at[c] = "s3 deleting" /\ at' = [at EXCEPT ![c] = "done"]) \/ (at[c] = "s3 deleting" /\ at' = [at EXCEPT ![c] = "failed"])
      /\ (keyring' = keyring \/ keyring' = [keyring EXCEPT ![i] = None])
      /\ (rows' = rows \/ rows' = [rows EXCEPT ![i] = row])
      /\ got' = got /\ sessions' = sessions /\ adapters' = adapters /\ faults' = faults /\ promised' = promised
      /\ restored' = restored /\ todo' = todo /\ migrating' = migrating /\ restarts' = restarts
  BY <1>i, <1>0, <1>r DEF S3Deleted, S3Save, Goto, DeletePassword, At, Id, boot, aux
<1>2. /\ (at[c] = "s3 deleting" /\ at'[c] = "done") \/ (at[c] = "s3 deleting" /\ at'[c] = "failed")
      /\ \A d \in Calls : d # c => at'[d] = at[d]
      /\ \A j \in Ids : j # i => keyring'[j] = keyring[j] /\ rows'[j] = rows[j]
      /\ rows'[i] = rows[i] \/ rows'[i] = row
  BY <1>1, <1>i DEF Pieces, Typed
<1>3. Frame(c, i)
  BY <1>1, <1>2, <1>a DEF Frame
<1>4. Typed'
  <2>1. at' \in [Calls -> Places]
    BY ZenonT(60), <1>1 DEF Pieces, Typed, Places
  <2>2. keyring' \in [Ids -> Secrets \cup {None}]
    BY <1>1 DEF Pieces, Typed, Secrets
  <2>3. rows' \in [Ids -> Row \cup {None}]
    BY <1>1 DEF Pieces, Typed
  <2> QED
    BY <1>1, <2>1, <2>2, <2>3 DEF Pieces, Typed
<1>5. InOrder(c)'
  BY <1>1, <1>2, <1>a DEF InOrder, InCourse, Under
<1>6. Good(i)'
  <2>1. NoLeakAt(i)' /\ AdapterIsOwn(i)'
    BY <1>1, <1>2, <1>3, <1>a, AdaptersStay
  <2>2. SavedAt(i)'
    BY <1>0, <1>1, <1>2, <1>a, <1>s DEF Good, SavedAt, AloneAt, Working, SeenIsSo, Id
  <2>3. UsableAt(i)'
    BY <1>1, <1>2, <1>a DEF Good, UsableAt, Closing
  <2>4. KeptAt(i)'
    BY <1>0, <1>1, <1>2, <1>a DEF Good, KeptAt, AloneAt, Working, SeenIsSo, Id
  <2>5. Under(c)' /\ "overlap" \notin faults[i] /\ SeenIsSo(c) => SeenIsSo(c)'
    BY <1>0, <1>1, <1>2, <1>a DEF SeenIsSo, Closing, Under, At, Id
  <2>6. AloneAt(i)'
    BY <1>0, <1>1, <1>2, <1>3, <1>a, <2>5, StillAlone
  <2> QED
    BY <2>1, <2>2, <2>3, <2>4, <2>6 DEF Good
<1> QED
  BY <1>3, <1>4, <1>5, <1>6, <1>a, CallStepKeeps

LEMMA S3ReadKeeps == ASSUME Pieces, NEW c \in Calls, S3Read(c) PROVE Pieces'
<1>0. Under(c) /\ op[c] = "s3" /\ op[c] # "test"
  BY DEF S3Read, At, Under, Pieces, InOrder, InCourse
<1>i. PICK i \in Ids : i = of[c]
  BY <1>0, OfCall
<1>a. i = of[c] /\ restored /\ Good(i) /\ InOrder(c)
  BY <1>0, <1>i, OfCall
<1>r. PICK row \in Row : row = [config |-> c, kind |-> "s3"]
  BY RowOf DEF Secrets, Kinds
<1>s. row # None /\ row.kind = "s3"
  BY <1>r, RowOf DEF Secrets, Kinds
<1>1. /\ op' = op /\ of' = of /\ own' = own
      /\ (at[c] = "s3 reading" /\ at' = [at EXCEPT ![c] = "done"]) \/ (at[c] = "s3 reading" /\ at' = [at EXCEPT ![c] = "failed"])
      /\ (rows' = rows \/ rows' = [rows EXCEPT ![i] = row])
      /\ (promised' = promised \/ (own[c] /\ promised' = [promised EXCEPT ![i] = c]))
      /\ got' = got /\ keyring' = keyring /\ sessions' = sessions /\ adapters' = adapters /\ faults' = faults
      /\ restored' = restored /\ todo' = todo /\ migrating' = migrating /\ restarts' = restarts
  BY <1>i, <1>r DEF S3Read, S3Save, Goto, Answer, At, Id, boot, aux
<1>2. /\ (at[c] = "s3 reading" /\ at'[c] = "done") \/ (at[c] = "s3 reading" /\ at'[c] = "failed")
      /\ \A d \in Calls : d # c => at'[d] = at[d]
      /\ \A j \in Ids : j # i => promised'[j] = promised[j] /\ rows'[j] = rows[j]
      /\ rows'[i] = rows[i] \/ rows'[i] = row
      /\ promised'[i] = promised[i] \/ (own[c] /\ promised'[i] = c)
  BY <1>1, <1>i DEF Pieces, Typed
<1>3. Frame(c, i)
  BY <1>1, <1>2, <1>a DEF Frame
<1>4. Typed'
  <2>1. at' \in [Calls -> Places]
    BY ZenonT(60), <1>1 DEF Pieces, Typed, Places
  <2>2. rows' \in [Ids -> Row \cup {None}]
    BY <1>1 DEF Pieces, Typed
  <2>3. promised' \in [Ids -> Calls \cup {None}]
    BY <1>1 DEF Pieces, Typed
  <2> QED
    BY <1>1, <2>1, <2>2, <2>3 DEF Pieces, Typed
<1>5. InOrder(c)'
  BY <1>1, <1>2, <1>a DEF InOrder, InCourse, Under
<1>6. Good(i)'
  <2>1. NoLeakAt(i)' /\ AdapterIsOwn(i)'
    BY <1>1, <1>2, <1>3, <1>a, AdaptersStay
  <2>2. SavedAt(i)'
    BY <1>0, <1>1, <1>2, <1>a, <1>s DEF Good, SavedAt, AloneAt, Working, SeenIsSo, Id
  <2>3. UsableAt(i)'
    BY <1>1, <1>2, <1>a DEF Good, UsableAt, Closing
  <2>4. KeptAt(i)'
    <3>1. "overlap" \notin faults[i] => promised[i] = None /\ sessions[i] = None /\ (own[c] => keyring[i] = c)
      BY <1>0, <1>1, <1>a DEF Good, AloneAt, Working, SeenIsSo, At, Id
    <3> QED
      BY <1>1, <1>2, <3>1 DEF KeptAt
  <2>5. Under(c)' /\ "overlap" \notin faults[i] /\ SeenIsSo(c) => SeenIsSo(c)'
    BY <1>0, <1>1, <1>2, <1>a DEF SeenIsSo, Closing, Under, At, Id
  <2>6. AloneAt(i)'
    BY <1>0, <1>1, <1>2, <1>3, <1>a, <2>5, StillAlone
  <2> QED
    BY <2>1, <2>2, <2>3, <2>4, <2>6 DEF Good
<1> QED
  BY <1>3, <1>4, <1>5, <1>6, <1>a, CallStepKeeps

LEMMA S3ClosedKeeps == ASSUME Pieces, NEW c \in Calls, S3Closed(c) PROVE Pieces'
<1>0. Under(c) /\ op[c] = "s3" /\ op[c] # "test"
  BY DEF S3Closed, At, Under, Pieces, InOrder, InCourse
<1>i. PICK i \in Ids : i = of[c]
  BY <1>0, OfCall
<1>a. i = of[c] /\ restored /\ Good(i) /\ InOrder(c)
  BY <1>0, <1>i, OfCall
<1>1. /\ op' = op /\ of' = of /\ own' = own
      /\ (at[c] = "s3 closing" /\ at' = [at EXCEPT ![c] = "s3 setting"] /\ own[c]) \/ (at[c] = "s3 closing" /\ at' = [at EXCEPT ![c] = "s3 reading"] /\ ~own[c]) \/ (at[c] = "s3 closing" /\ at' = [at EXCEPT ![c] = "s3 deleting"] /\ ~own[c]) \/ (at[c] = "s3 closing" /\ at' = [at EXCEPT ![c] = "failed"])
      /\ sessions' = [sessions EXCEPT ![i] = None]
      /\ got' = got /\ keyring' = keyring /\ rows' = rows /\ adapters' = adapters /\ faults' = faults /\ promised' = promised
      /\ restored' = restored /\ todo' = todo /\ migrating' = migrating /\ restarts' = restarts
  BY <1>i DEF S3Closed, S3Password, Goto, Forget, At, Id, boot, aux
<1>2. /\ (at[c] = "s3 closing" /\ at'[c] = "s3 setting" /\ own[c]) \/ (at[c] = "s3 closing" /\ at'[c] = "s3 reading" /\ ~own[c]) \/ (at[c] = "s3 closing" /\ at'[c] = "s3 deleting" /\ ~own[c]) \/ (at[c] = "s3 closing" /\ at'[c] = "failed")
      /\ \A d \in Calls : d # c => at'[d] = at[d]
      /\ \A j \in Ids : j # i => sessions'[j] = sessions[j]
      /\ sessions'[i] = None
  BY <1>1, <1>i DEF Pieces, Typed
<1>3. Frame(c, i)
  BY <1>1, <1>2, <1>a DEF Frame
<1>4. Typed'
  <2>1. at' \in [Calls -> Places]
    BY <1>1 DEF Pieces, Typed, Places
  <2>2. sessions' \in [Ids -> Session \cup {None}]
    BY <1>1 DEF Pieces, Typed
  <2> QED
    BY <1>1, <2>1, <2>2 DEF Pieces, Typed
<1>5. InOrder(c)'
  BY <1>1, <1>2, <1>a DEF InOrder, InCourse, Under
<1>6. Good(i)'
  <2>0. NoLeakAt(i)'
    <3>1. Holds(i, sessions[i].adapter) /\ "overlap" \notin faults[i] => adapters[sessions[i].adapter] # "open"
      BY <1>0, <1>1, <1>a DEF Good, AloneAt, Working, SeenIsSo, Closing, Holds, Id
    <3> QED
      BY <1>1, <1>2, <1>a, <3>1 DEF Good, NoLeakAt, Made, Holds
  <2>1. NoLeakAt(i)' /\ AdapterIsOwn(i)'
    BY <1>1, <1>2, <1>a, <2>0 DEF AdapterIsOwn
  <2>2. SavedAt(i)'
    BY <1>1, <1>2, <1>a DEF Good, SavedAt
  <2>3. UsableAt(i)'
    BY <1>1, <1>2, <1>a DEF Good, UsableAt, Closing
  <2>4. KeptAt(i)'
    BY <1>0, <1>1, <1>2, <1>a DEF Good, KeptAt, AloneAt, Working, SeenIsSo, Id
  <2>5. Under(c)' /\ "overlap" \notin faults[i] /\ SeenIsSo(c) => SeenIsSo(c)'
    BY <1>0, <1>1, <1>2, <1>a DEF SeenIsSo, Closing, Under, At, Id
  <2>6. AloneAt(i)'
    BY <1>0, <1>1, <1>2, <1>3, <1>a, <2>5, StillAlone
  <2> QED
    BY <2>1, <2>2, <2>3, <2>4, <2>6 DEF Good
<1> QED
  BY <1>3, <1>4, <1>5, <1>6, <1>a, CallStepKeeps

(* Session and row go together.                                            *)
LEMMA RemoveClosedKeeps == ASSUME Pieces, NEW c \in Calls, RemoveClosed(c) PROVE Pieces'
<1>0. Under(c) /\ op[c] = "remove" /\ op[c] # "test"
  BY DEF RemoveClosed, At, Under, Pieces, InOrder, InCourse
<1>i. PICK i \in Ids : i = of[c]
  BY <1>0, OfCall
<1>a. i = of[c] /\ restored /\ Good(i) /\ InOrder(c)
  BY <1>0, <1>i, OfCall
<1>1. /\ op' = op /\ of' = of /\ own' = own
      /\ at[c] = "removing" /\ at' = [at EXCEPT ![c] = "deleting"]
      /\ rows' = [rows EXCEPT ![i] = None]
      /\ sessions' = [sessions EXCEPT ![i] = None]
      /\ got' = got /\ keyring' = keyring /\ adapters' = adapters /\ faults' = faults /\ promised' = promised
      /\ restored' = restored /\ todo' = todo /\ migrating' = migrating /\ restarts' = restarts
  BY <1>i DEF RemoveClosed, Goto, Forget, Drop, At, Id, boot, aux
<1>2. /\ at[c] = "removing" /\ at'[c] = "deleting"
      /\ \A d \in Calls : d # c => at'[d] = at[d]
      /\ \A j \in Ids : j # i => sessions'[j] = sessions[j] /\ rows'[j] = rows[j]
      /\ sessions'[i] = None
  BY <1>1, <1>i DEF Pieces, Typed
<1>3. Frame(c, i)
  BY <1>1, <1>2, <1>a DEF Frame
<1>4. Typed'
  <2>1. at' \in [Calls -> Places]
    BY <1>1 DEF Pieces, Typed, Places
  <2>2. rows' \in [Ids -> Row \cup {None}]
    BY <1>1 DEF Pieces, Typed
  <2>3. sessions' \in [Ids -> Session \cup {None}]
    BY <1>1 DEF Pieces, Typed
  <2> QED
    BY <1>1, <2>1, <2>2, <2>3 DEF Pieces, Typed
<1>5. InOrder(c)'
  BY <1>1, <1>2, <1>a DEF InOrder, InCourse, Under
<1>6. Good(i)'
  <2>0. NoLeakAt(i)'
    <3>1. Holds(i, sessions[i].adapter) /\ "overlap" \notin faults[i] => adapters[sessions[i].adapter] # "open"
      BY <1>0, <1>1, <1>a DEF Good, AloneAt, Working, SeenIsSo, Closing, Holds, Id
    <3> QED
      BY <1>1, <1>2, <1>a, <3>1 DEF Good, NoLeakAt, Made, Holds
  <2>1. NoLeakAt(i)' /\ AdapterIsOwn(i)'
    BY <1>1, <1>2, <1>a, <2>0 DEF AdapterIsOwn
  <2>2. SavedAt(i)'
    BY <1>1, <1>2, <1>a DEF Good, SavedAt
  <2>3. UsableAt(i)'
    BY <1>1, <1>2, <1>a DEF Good, UsableAt, Closing
  <2>4. KeptAt(i)'
    BY <1>0, <1>1, <1>2, <1>a DEF Good, KeptAt, AloneAt, Working, SeenIsSo, Id
  <2>5. Under(c)' /\ "overlap" \notin faults[i] /\ SeenIsSo(c) => SeenIsSo(c)'
    BY <1>0, <1>1, <1>2, <1>a DEF SeenIsSo, Closing, Under, At, Id
  <2>6. AloneAt(i)'
    BY <1>0, <1>1, <1>2, <1>3, <1>a, <2>5, StillAlone
  <2> QED
    BY <2>1, <2>2, <2>3, <2>4, <2>6 DEF Good
<1> QED
  BY <1>3, <1>4, <1>5, <1>6, <1>a, CallStepKeeps

(* A test opens an adapter that is in no session, and closes it.           *)
LEMMA TestOpensKeeps == ASSUME Pieces, NEW c \in Calls, TestOpens(c) PROVE Pieces'
<1>0. Under(c) /\ op[c] = "test"
  BY DEF TestOpens, At, Under, Pieces, InOrder, InCourse
<1>i. PICK i \in Ids : i = of[c]
  BY <1>0, OfCall
<1>a. i = of[c] /\ restored /\ Good(i) /\ InOrder(c)
  BY <1>0, <1>i, OfCall
<1>1. /\ op' = op /\ of' = of /\ own' = own
      /\ (at[c] = "reading" /\ at' = [at EXCEPT ![c] = "testing"] /\ adapters' = [adapters EXCEPT ![c] = "open"]) \/ (at[c] = "reading" /\ at' = [at EXCEPT ![c] = "failed"] /\ adapters' = adapters)
      /\ (adapters' = adapters \/ adapters' = [adapters EXCEPT ![c] = "open"])
      /\ got' = got /\ keyring' = keyring /\ rows' = rows /\ sessions' = sessions /\ faults' = faults /\ promised' = promised
      /\ restored' = restored /\ todo' = todo /\ migrating' = migrating /\ restarts' = restarts
  BY <1>i DEF TestOpens, Goto, Open, At, Id, boot, aux
<1>2. /\ (at[c] = "reading" /\ at'[c] = "testing" /\ adapters' = [adapters EXCEPT ![c] = "open"]) \/ (at[c] = "reading" /\ at'[c] = "failed" /\ adapters' = adapters)
      /\ \A d \in Calls : d # c => at'[d] = at[d]
      /\ \A a \in Adapters : a # c => adapters'[a] = adapters[a]
      /\ at'[c] = "testing" \/ adapters'[c] = adapters[c]
  BY <1>1, <1>i DEF Pieces, Typed, Adapters
<1>b. ~Holds(i, c)
  BY <1>0, <1>a, ConstantsApart DEF Good, AdapterIsOwn, Holds
<1>d. sessions[i] # None => adapters'[sessions[i].adapter] = adapters[sessions[i].adapter]
  BY <1>2, <1>a, <1>b DEF Good, AdapterIsOwn, Holds, Adapters
<1>e. \A d \in Calls : d # c => (Closing(d)' <=> Closing(d)) /\ (Under(d)' <=> Under(d))
  BY <1>2 DEF Closing, Under
<1>3. Frame(c, i)
  BY <1>1, <1>2, <1>a DEF Frame
<1>4. Typed'
  <2>1. at' \in [Calls -> Places]
    BY <1>1 DEF Pieces, Typed, Places
  <2>2. adapters' \in [Adapters -> {"none", "open", "closed"}]
    BY <1>1 DEF Pieces, Typed, Adapters
  <2> QED
    BY <1>1, <2>1, <2>2 DEF Pieces, Typed
<1>5. InOrder(c)'
  <2>1. at'[c] # "idle" /\ op'[c] = "test" /\ of'[c] \in Ids
    BY <1>0, <1>1, <1>2, <1>a
  <2>2. Under(c)' => at'[c] = "testing"
    BY <1>2 DEF Under
  <2> QED
    BY <2>1, <2>2 DEF InOrder, InCourse
<1>6. Good(i)'
  <2>0. NoLeakAt(i)'
    BY <1>1, <1>2, <1>a, ConstantsApart DEF Good, NoLeakAt, Made, Holds
  <2>1. NoLeakAt(i)' /\ AdapterIsOwn(i)'
    BY <1>1, <1>a, <2>0 DEF Good, AdapterIsOwn
  <2>2. SavedAt(i)'
    BY <1>1, <1>2, <1>a DEF Good, SavedAt
  <2>3. UsableAt(i)'
    BY <1>0, <1>1, <1>2, <1>a, <1>d, <1>e DEF Good, UsableAt, Closing
  <2>4. KeptAt(i)'
    BY <1>1, <1>a DEF Good, KeptAt
  <2>6. AloneAt(i)'
    <3> SUFFICES ASSUME "overlap" \notin faults'[i], NEW d \in Calls, Working(d, i)'
                 PROVE  OnlyCall(d)' /\ SeenIsSo(d)'
      BY DEF AloneAt
    <3>1. d # c /\ Working(d, i)
      BY <1>0, <1>1, <1>a, <1>e DEF Working
    <3>2. OnlyCall(d) /\ SeenIsSo(d) /\ of[d] = i
      BY <1>1, <1>a, <3>1 DEF Good, AloneAt, Working
    <3>3. OnlyCall(d)'
      BY <1>0, <1>1, <1>e, <3>1, <3>2 DEF OnlyCall, Id
    <3>4. SeenIsSo(d)'
      BY <1>1, <1>2, <1>a, <1>d, <1>e, <3>1, <3>2 DEF SeenIsSo, At, Id
    <3> QED
      BY <3>3, <3>4
  <2> QED
    BY <2>1, <2>2, <2>3, <2>4, <2>6 DEF Good
<1> QED
  BY <1>3, <1>4, <1>5, <1>6, <1>a, CallStepKeeps

LEMMA TestEndsKeeps == ASSUME Pieces, NEW c \in Calls, TestEnds(c) PROVE Pieces'
<1>0. Under(c) /\ op[c] = "test"
  BY DEF TestEnds, At, Under, Pieces, InOrder, InCourse
<1>i. PICK i \in Ids : i = of[c]
  BY <1>0, OfCall
<1>a. i = of[c] /\ restored /\ Good(i) /\ InOrder(c)
  BY <1>0, <1>i, OfCall
<1>1. /\ op' = op /\ of' = of /\ own' = own
      /\ (at[c] = "testing" /\ at' = [at EXCEPT ![c] = "done"]) \/ (at[c] = "testing" /\ at' = [at EXCEPT ![c] = "failed"])
      /\ adapters' = [adapters EXCEPT ![c] = "closed"]
      /\ got' = got /\ keyring' = keyring /\ rows' = rows /\ sessions' = sessions /\ faults' = faults /\ promised' = promised
      /\ restored' = restored /\ todo' = todo /\ migrating' = migrating /\ restarts' = restarts
  BY <1>i DEF TestEnds, Goto, At, Id, boot, aux
<1>2. /\ (at[c] = "testing" /\ at'[c] = "done") \/ (at[c] = "testing" /\ at'[c] = "failed")
      /\ \A d \in Calls : d # c => at'[d] = at[d]
      /\ \A a \in Adapters : a # c => adapters'[a] = adapters[a]
      /\ adapters'[c] = "closed"
  BY <1>1, <1>i DEF Pieces, Typed, Adapters
<1>b. ~Holds(i, c)
  BY <1>0, <1>a, ConstantsApart DEF Good, AdapterIsOwn, Holds
<1>d. sessions[i] # None => adapters'[sessions[i].adapter] = adapters[sessions[i].adapter]
  BY <1>2, <1>a, <1>b DEF Good, AdapterIsOwn, Holds, Adapters
<1>e. \A d \in Calls : d # c => (Closing(d)' <=> Closing(d)) /\ (Under(d)' <=> Under(d))
  BY <1>2 DEF Closing, Under
<1>3. Frame(c, i)
  BY <1>1, <1>2, <1>a DEF Frame
<1>4. Typed'
  <2>1. at' \in [Calls -> Places]
    BY <1>1 DEF Pieces, Typed, Places
  <2>2. adapters' \in [Adapters -> {"none", "open", "closed"}]
    BY <1>1 DEF Pieces, Typed, Adapters
  <2> QED
    BY <1>1, <2>1, <2>2 DEF Pieces, Typed
<1>5. InOrder(c)'
  <2>1. at'[c] # "idle" /\ op'[c] = "test" /\ of'[c] \in Ids
    BY <1>0, <1>1, <1>2, <1>a
  <2>2. Under(c)' => at'[c] = "testing"
    BY <1>2 DEF Under
  <2> QED
    BY <2>1, <2>2 DEF InOrder, InCourse
<1>6. Good(i)'
  <2>0. NoLeakAt(i)'
    BY <1>1, <1>2, <1>a, ConstantsApart DEF Good, NoLeakAt, Made, Holds
  <2>1. NoLeakAt(i)' /\ AdapterIsOwn(i)'
    BY <1>1, <1>a, <2>0 DEF Good, AdapterIsOwn
  <2>2. SavedAt(i)'
    BY <1>1, <1>2, <1>a DEF Good, SavedAt
  <2>3. UsableAt(i)'
    BY <1>0, <1>1, <1>2, <1>a, <1>d, <1>e DEF Good, UsableAt, Closing
  <2>4. KeptAt(i)'
    BY <1>1, <1>a DEF Good, KeptAt
  <2>6. AloneAt(i)'
    <3> SUFFICES ASSUME "overlap" \notin faults'[i], NEW d \in Calls, Working(d, i)'
                 PROVE  OnlyCall(d)' /\ SeenIsSo(d)'
      BY DEF AloneAt
    <3>1. d # c /\ Working(d, i)
      BY <1>0, <1>1, <1>a, <1>e DEF Working
    <3>2. OnlyCall(d) /\ SeenIsSo(d) /\ of[d] = i
      BY <1>1, <1>a, <3>1 DEF Good, AloneAt, Working
    <3>3. OnlyCall(d)'
      BY <1>0, <1>1, <1>e, <3>1, <3>2 DEF OnlyCall, Id
    <3>4. SeenIsSo(d)'
      BY <1>1, <1>2, <1>a, <1>d, <1>e, <3>1, <3>2 DEF SeenIsSo, At, Id
    <3> QED
      BY <3>3, <3>4
  <2> QED
    BY <2>1, <2>2, <2>3, <2>4, <2>6 DEF Good
<1> QED
  BY <1>3, <1>4, <1>5, <1>6, <1>a, CallStepKeeps

(* The adapter of the session is closed; what was read is still so when    *)
(* the call goes on, if nothing overlaps it.                               *)
LEMMA ReadThenCloseKeeps == ASSUME Pieces, NEW c \in Calls, ReadThenClose(c) PROVE Pieces'
<1>0. Under(c) /\ op[c] = "add" /\ op[c] # "test"
  BY DEF ReadThenClose, At, Under, Pieces, InOrder, InCourse
<1>i. PICK i \in Ids : i = of[c]
  BY <1>0, OfCall
<1>a. i = of[c] /\ restored /\ Good(i) /\ InOrder(c)
  BY <1>0, <1>i, OfCall
<1>p. PICK p \in {keyring[i], None} : (own[c] => p = c) /\ got' = [got EXCEPT ![c] = p]
  BY <1>i DEF ReadThenClose, Answer, Refused, Id
<1>q. PICK s \in Adapters : s = sessions[i].adapter
  BY <1>i, <1>a DEF ReadThenClose, Good, AdapterIsOwn, Adapters, Id
<1>n. sessions[i] # None
  BY <1>i DEF ReadThenClose, Id
<1>1. /\ op' = op /\ of' = of /\ own' = own
      /\ at[c] = "reading" /\ at' = [at EXCEPT ![c] = "closing"]
      /\ got' = [got EXCEPT ![c] = p]
      /\ adapters' = [adapters EXCEPT ![s] = "closed"]
      /\ keyring' = keyring /\ rows' = rows /\ sessions' = sessions /\ faults' = faults /\ promised' = promised
      /\ restored' = restored /\ todo' = todo /\ migrating' = migrating /\ restarts' = restarts
  BY <1>i, <1>p, <1>q DEF ReadThenClose, Goto, ClosePrevious, At, Id, boot, aux
<1>2. /\ at[c] = "reading" /\ at'[c] = "closing"
      /\ \A d \in Calls : d # c => at'[d] = at[d]
      /\ got'[c] = p /\ \A d \in Calls : d # c => got'[d] = got[d]
      /\ adapters'[s] = "closed" /\ \A a \in Adapters : a # s => adapters'[a] = adapters[a]
  BY <1>1, <1>i DEF Pieces, Typed
<1>3. Frame(c, i)
  BY <1>1, <1>2, <1>a, <1>q, <1>n DEF Frame, Holds
<1>4. Typed'
  <2>1. at' \in [Calls -> Places]
    BY <1>1 DEF Pieces, Typed, Places
  <2>2. got' \in [Calls -> Secrets \cup {None}]
    BY <1>1, <1>i DEF Pieces, Typed
  <2>3. adapters' \in [Adapters -> {"none", "open", "closed"}]
    BY <1>1 DEF Pieces, Typed, Adapters
  <2> QED
    BY <1>1, <2>1, <2>2, <2>3 DEF Pieces, Typed
<1>5. InOrder(c)'
  BY <1>0, <1>1, <1>2, <1>a, <1>i DEF InOrder, InCourse, Under
<1>6. Good(i)'
  <2>0. NoLeakAt(i)'
    BY <1>1, <1>2, <1>a, <1>q, <1>n, ConstantsApart DEF Good, NoLeakAt, Made, Holds
  <2>1. NoLeakAt(i)' /\ AdapterIsOwn(i)'
    BY <1>1, <1>a, <2>0 DEF Good, AdapterIsOwn
  <2>2. SavedAt(i)'
    BY <1>1, <1>2, <1>a DEF Good, SavedAt
  <2>3. UsableAt(i)'
    BY <1>1, <1>2, <1>a DEF UsableAt, Closing
  <2>4. KeptAt(i)'
    BY <1>0, <1>1, <1>2, <1>a DEF Good, KeptAt, AloneAt, Working, SeenIsSo, Id
  <2>5. Under(c)' /\ "overlap" \notin faults[i] /\ SeenIsSo(c) => SeenIsSo(c)'
    BY <1>0, <1>1, <1>2, <1>a, <1>p, <1>q DEF SeenIsSo, Closing, Under, At, Id
  <2>6. AloneAt(i)'
    BY <1>0, <1>1, <1>2, <1>3, <1>a, <2>5, StillAlone
  <2> QED
    BY <2>1, <2>2, <2>3, <2>4, <2>6 DEF Good
<1> QED
  BY <1>3, <1>4, <1>5, <1>6, <1>a, CallStepKeeps

(* The new session: over the closed adapter, or where none was.            *)
LEMMA InstallClosedKeeps == ASSUME Pieces, NEW c \in Calls, InstallClosed(c) PROVE Pieces'
<1>0. Under(c) /\ op[c] = "add" /\ op[c] # "test"
  BY DEF InstallClosed, At, Under, Pieces, InOrder, InCourse
<1>i. PICK i \in Ids : i = of[c]
  BY <1>0, OfCall
<1>a. i = of[c] /\ restored /\ Good(i) /\ InOrder(c)
  BY <1>0, <1>i, OfCall
<1>p. PICK p \in Secrets \cup {None} : p = got[c]
  BY DEF Pieces, Typed
<1>r. PICK row \in Row : row = [config |-> c, kind |-> "database"] /\ row # None /\ row.config = c /\ row.kind = "database"
  BY RowOf DEF Secrets, Kinds
<1>t. PICK session \in Session : session = [config |-> c, password |-> p, adapter |-> c]
  BY <1>p, SessionOf DEF Secrets, Adapters
<1>s. session # None /\ session.config = c /\ session.password = p /\ session.adapter = c
  BY <1>p, <1>t, SessionOf DEF Secrets, Adapters
<1>1. /\ op' = op /\ of' = of /\ own' = own
      /\ (at[c] = "closing" /\ at' = [at EXCEPT ![c] = "done"]) \/ (at[c] = "closing" /\ at' = [at EXCEPT ![c] = "failed"])
      /\ got' = [got EXCEPT ![c] = None]
      /\ sessions' = [sessions EXCEPT ![i] = session]
      /\ adapters' = [adapters EXCEPT ![c] = "open"]
      /\ (rows' = rows \/ rows' = [rows EXCEPT ![i] = row])
      /\ faults' = [faults EXCEPT ![i] = faults'[i]]
      /\ (promised' = promised \/ promised' = [promised EXCEPT ![i] = c])
      /\ keyring' = keyring
      /\ restored' = restored /\ todo' = todo /\ migrating' = migrating /\ restarts' = restarts
  BY <1>i, <1>p, <1>r, <1>t DEF InstallClosed, Install, Goto, Open, Mended, At, Id, boot, aux
<1>2. /\ (at[c] = "closing" /\ at'[c] = "done") \/ (at[c] = "closing" /\ at'[c] = "failed")
      /\ \A d \in Calls : d # c => at'[d] = at[d]
      /\ sessions'[i] = session /\ \A j \in Ids : j # i => sessions'[j] = sessions[j]
      /\ adapters'[c] = "open" /\ \A a \in Adapters : a # c => adapters'[a] = adapters[a]
      /\ \A j \in Ids : j # i => rows'[j] = rows[j] /\ faults'[j] = faults[j] /\ promised'[j] = promised[j]
      /\ \A d \in Calls : d # c => got'[d] = got[d]
  BY <1>1, <1>i DEF Pieces, Typed, Adapters
<1>f. faults'[i] \in SUBSET Faults
  BY <1>i, <1>p DEF InstallClosed, Install, Mended, Id, Pieces, Typed, Faults
<1>e. /\ "overlap" \in faults'[i] <=> "overlap" \in faults[i]
      /\ "broken" \notin faults'[i]
      /\ \/ /\ at'[c] = "done" /\ rows'[i] = row /\ "unsaved" \notin faults'[i]
            /\ p = None /\ keyring[i] # None => "unread" \in faults'[i]
            /\ promised'[i] = IF own[c] THEN c ELSE promised[i]
         \/ /\ at'[c] = "failed" /\ rows' = rows /\ "unsaved" \in faults'[i] /\ "unread" \in faults'[i]
            /\ promised' = promised
  BY <1>i, <1>p, <1>r DEF InstallClosed, Install, Goto, Mended, Id, Pieces, Typed, Faults
<1>o. "overlap" \notin faults[i] =>
        (p = None \/ p = keyring[i]) /\ (own[c] => p = c /\ promised[i] = None)
  BY <1>0, <1>1, <1>a, <1>p DEF Good, AloneAt, Working, SeenIsSo, At, Id
<1>3. Frame(c, i)
  BY <1>1, <1>2, <1>a DEF Frame
<1>4. Typed'
  <2>1. at' \in [Calls -> Places]
    BY ZenonT(60), <1>1 DEF Pieces, Typed, Places
  <2>2. got' \in [Calls -> Secrets \cup {None}]
    BY <1>1 DEF Pieces, Typed
  <2>3. sessions' \in [Ids -> Session \cup {None}]
    BY <1>1, <1>t DEF Pieces, Typed
  <2>4. adapters' \in [Adapters -> {"none", "open", "closed"}]
    BY <1>1 DEF Pieces, Typed, Adapters
  <2>5. rows' \in [Ids -> Row \cup {None}]
    BY <1>1 DEF Pieces, Typed
  <2>6. faults' \in [Ids -> SUBSET Faults]
    BY <1>1, <1>f DEF Pieces, Typed
  <2>7. promised' \in [Ids -> Calls \cup {None}]
    BY <1>1 DEF Pieces, Typed
  <2> QED
    BY <1>1, <2>1, <2>2, <2>3, <2>4, <2>5, <2>6, <2>7 DEF Pieces, Typed
<1>5. InOrder(c)'
  <2>1. at'[c] # "idle" /\ ~Under(c)'
    BY <1>2 DEF Under
  <2> QED
    BY <1>1, <1>a, <1>i, <2>1 DEF InOrder
<1>6. Good(i)'
  <2>0. NoLeakAt(i)'
    <3>1. Holds(i, sessions[i].adapter) /\ "overlap" \notin faults[i] => adapters[sessions[i].adapter] # "open"
      BY <1>0, <1>1, <1>a DEF Good, AloneAt, Working, SeenIsSo, Closing, Holds, Id
    <3> QED
      BY <1>1, <1>2, <1>a, <1>s, <1>e, <3>1, ConstantsApart DEF Good, NoLeakAt, Made, Holds
  <2>1. NoLeakAt(i)' /\ AdapterIsOwn(i)'
    BY <1>0, <1>1, <1>2, <1>a, <1>s, <2>0 DEF AdapterIsOwn
  <2>2. SavedAt(i)'
    BY <1>1, <1>2, <1>a, <1>r, <1>s, <1>e DEF SavedAt
  <2>3. UsableAt(i)'
    BY <1>1, <1>2, <1>s DEF UsableAt
  <2>4. KeptAt(i)'
    <3>1. CASE at'[c] = "done"
      <4>1. /\ promised'[i] = IF own[c] THEN c ELSE promised[i]
            /\ p = None /\ keyring[i] # None => "unread" \in faults'[i]
            /\ "overlap" \in faults'[i] <=> "overlap" \in faults[i]
            /\ keyring'[i] = keyring[i] /\ sessions'[i].password = p
        BY <1>1, <1>2, <1>s, <1>e, <3>1
      <4>2. CASE own[c]
        BY <1>o, <4>1, <4>2, ConstantsApart DEF KeptAt
      <4>3. CASE ~own[c]
        BY <1>a, <1>o, <4>1, <4>3 DEF Good, KeptAt
      <4> QED
        BY <4>2, <4>3
    <3>2. CASE at'[c] = "failed"
      BY <1>1, <1>2, <1>a, <1>s, <1>e, <1>o, <3>2 DEF Good, KeptAt
    <3> QED
      BY <1>2, <3>1, <3>2
  <2>5. Under(c)' /\ "overlap" \notin faults[i] /\ SeenIsSo(c) => SeenIsSo(c)'
    BY <1>2 DEF Under
  <2>6. AloneAt(i)'
    BY <1>0, <1>1, <1>2, <1>3, <1>a, <2>5, <1>e, StillAlone
  <2> QED
    BY <2>1, <2>2, <2>3, <2>4, <2>6 DEF Good
<1> QED
  BY <1>3, <1>4, <1>5, <1>6, <1>a, CallStepKeeps

LEMMA ReadAndInstallKeeps == ASSUME Pieces, NEW c \in Calls, ReadAndInstall(c) PROVE Pieces'
<1>0. Under(c) /\ op[c] = "add" /\ op[c] # "test"
  BY DEF ReadAndInstall, At, Under, Pieces, InOrder, InCourse
<1>i. PICK i \in Ids : i = of[c]
  BY <1>0, OfCall
<1>a. i = of[c] /\ restored /\ Good(i) /\ InOrder(c)
  BY <1>0, <1>i, OfCall
<1>p. PICK p \in Secrets \cup {None} : p \in {keyring[i], None} /\ (own[c] => p = c) /\ Install(c, p)
  BY <1>i DEF ReadAndInstall, Answer, Refused, Id, Pieces, Typed
<1>n. sessions[i] = None
  BY <1>i DEF ReadAndInstall, Id
<1>r. PICK row \in Row : row = [config |-> c, kind |-> "database"] /\ row # None /\ row.config = c /\ row.kind = "database"
  BY RowOf DEF Secrets, Kinds
<1>t. PICK session \in Session : session = [config |-> c, password |-> p, adapter |-> c]
  BY <1>p, SessionOf DEF Secrets, Adapters
<1>s. session # None /\ session.config = c /\ session.password = p /\ session.adapter = c
  BY <1>p, <1>t, SessionOf DEF Secrets, Adapters
<1>1. /\ op' = op /\ of' = of /\ own' = own
      /\ (at[c] = "reading" /\ at' = [at EXCEPT ![c] = "done"]) \/ (at[c] = "reading" /\ at' = [at EXCEPT ![c] = "failed"])
      /\ sessions' = [sessions EXCEPT ![i] = session]
      /\ adapters' = [adapters EXCEPT ![c] = "open"]
      /\ (rows' = rows \/ rows' = [rows EXCEPT ![i] = row])
      /\ faults' = [faults EXCEPT ![i] = faults'[i]]
      /\ (promised' = promised \/ promised' = [promised EXCEPT ![i] = c])
      /\ got' = got /\ keyring' = keyring
      /\ restored' = restored /\ todo' = todo /\ migrating' = migrating /\ restarts' = restarts
  BY <1>i, <1>p, <1>r, <1>t DEF ReadAndInstall, Install, Goto, Open, Mended, At, Id, boot, aux
<1>2. /\ (at[c] = "reading" /\ at'[c] = "done") \/ (at[c] = "reading" /\ at'[c] = "failed")
      /\ \A d \in Calls : d # c => at'[d] = at[d]
      /\ sessions'[i] = session /\ \A j \in Ids : j # i => sessions'[j] = sessions[j]
      /\ adapters'[c] = "open" /\ \A a \in Adapters : a # c => adapters'[a] = adapters[a]
      /\ \A j \in Ids : j # i => rows'[j] = rows[j] /\ faults'[j] = faults[j] /\ promised'[j] = promised[j]
  BY <1>1, <1>i DEF Pieces, Typed, Adapters
<1>f. faults'[i] \in SUBSET Faults
  BY <1>i, <1>p DEF ReadAndInstall, Install, Mended, Id, Pieces, Typed, Faults
<1>e. /\ "overlap" \in faults'[i] <=> "overlap" \in faults[i]
      /\ "broken" \notin faults'[i]
      /\ \/ /\ at'[c] = "done" /\ rows'[i] = row /\ "unsaved" \notin faults'[i]
            /\ p = None /\ keyring[i] # None => "unread" \in faults'[i]
            /\ promised'[i] = IF own[c] THEN c ELSE promised[i]
         \/ /\ at'[c] = "failed" /\ rows' = rows /\ "unsaved" \in faults'[i] /\ "unread" \in faults'[i]
            /\ promised' = promised
  BY <1>i, <1>p, <1>r DEF ReadAndInstall, Install, Goto, Mended, Id, Pieces, Typed, Faults
<1>o. "overlap" \notin faults[i] =>
        (p = None \/ p = keyring[i]) /\ (own[c] => p = c /\ promised[i] = None)
  BY <1>0, <1>1, <1>a, <1>p DEF Good, AloneAt, Working, SeenIsSo, At, Id
<1>3. Frame(c, i)
  BY <1>1, <1>2, <1>a DEF Frame
<1>4. Typed'
  <2>1. at' \in [Calls -> Places]
    BY ZenonT(60), <1>1 DEF Pieces, Typed, Places
  <2>2. sessions' \in [Ids -> Session \cup {None}]
    BY <1>1, <1>t DEF Pieces, Typed
  <2>3. adapters' \in [Adapters -> {"none", "open", "closed"}]
    BY <1>1 DEF Pieces, Typed, Adapters
  <2>4. rows' \in [Ids -> Row \cup {None}]
    BY <1>1 DEF Pieces, Typed
  <2>5. faults' \in [Ids -> SUBSET Faults]
    BY <1>1, <1>f DEF Pieces, Typed
  <2>6. promised' \in [Ids -> Calls \cup {None}]
    BY <1>1 DEF Pieces, Typed
  <2> QED
    BY <1>1, <2>1, <2>2, <2>3, <2>4, <2>5, <2>6 DEF Pieces, Typed
<1>5. InOrder(c)'
  <2>1. at'[c] # "idle" /\ ~Under(c)'
    BY <1>2 DEF Under
  <2> QED
    BY <1>1, <1>a, <1>i, <2>1 DEF InOrder
<1>6. Good(i)'
  <2>0. NoLeakAt(i)'
    BY <1>1, <1>2, <1>a, <1>s, <1>e, <1>n, ConstantsApart DEF Good, NoLeakAt, Made, Holds
  <2>1. NoLeakAt(i)' /\ AdapterIsOwn(i)'
    BY <1>0, <1>1, <1>2, <1>a, <1>s, <2>0 DEF AdapterIsOwn
  <2>2. SavedAt(i)'
    BY <1>1, <1>2, <1>a, <1>r, <1>s, <1>e DEF SavedAt
  <2>3. UsableAt(i)'
    BY <1>1, <1>2, <1>s DEF UsableAt
  <2>4. KeptAt(i)'
    <3>1. CASE at'[c] = "done"
      <4>1. /\ promised'[i] = IF own[c] THEN c ELSE promised[i]
            /\ p = None /\ keyring[i] # None => "unread" \in faults'[i]
            /\ "overlap" \in faults'[i] <=> "overlap" \in faults[i]
            /\ keyring'[i] = keyring[i] /\ sessions'[i].password = p
        BY <1>1, <1>2, <1>s, <1>e, <3>1
      <4>2. CASE own[c]
        BY <1>o, <4>1, <4>2, ConstantsApart DEF KeptAt
      <4>3. CASE ~own[c]
        BY <1>a, <1>o, <4>1, <4>3 DEF Good, KeptAt
      <4> QED
        BY <4>2, <4>3
    <3>2. CASE at'[c] = "failed"
      BY <1>1, <1>2, <1>a, <1>s, <1>e, <1>o, <3>2 DEF Good, KeptAt
    <3> QED
      BY <1>2, <3>1, <3>2
  <2>5. Under(c)' /\ "overlap" \notin faults[i] /\ SeenIsSo(c) => SeenIsSo(c)'
    BY <1>2 DEF Under
  <2>6. AloneAt(i)'
    BY <1>0, <1>1, <1>2, <1>3, <1>a, <2>5, <1>e, StillAlone
  <2> QED
    BY <2>1, <2>2, <2>3, <2>4, <2>6 DEF Good
<1> QED
  BY <1>3, <1>4, <1>5, <1>6, <1>a, CallStepKeeps

-----------------------------------------------------------------------------
(* The start, before which no call is under way.                           *)
LEMMA AtStart ==
  ASSUME Pieces, NEW i \in todo
  PROVE  /\ i \in Ids /\ rows[i] # None /\ rows[i].kind # "s3" /\ sessions[i] = None
         /\ \A c \in Calls : ~Under(c)
BY DEF Pieces, StartFirst, Restorable

(* A row as it is cleaned.                                                 *)
LEMMA CleanRow ==
  ASSUME NEW r \in Row
  PROVE  /\ [r EXCEPT !.kind = "database"] \in Row
         /\ [r EXCEPT !.kind = "database"] # None
         /\ [r EXCEPT !.kind = "database"].config = r.config
         /\ [r EXCEPT !.kind = "database"].kind = "database"
<1>1. [r EXCEPT !.kind = "database"] = [config |-> r.config, kind |-> "database"]
  BY DEF Row
<1>2. r.config \in Secrets
  BY DEF Row
<1> QED
  BY ZenonT(60), <1>1, <1>2, RowOf DEF Kinds

(* A step of the start for one row leaves the rest as it is.               *)
LEMMA RestoreKeeps ==
  ASSUME Pieces, NEW i \in todo, Typed', StartFirst',
         op' = op, of' = of, own' = own, at' = at, got' = got, faults' = faults, promised' = promised,
         \A j \in Ids : j # i =>
           rows'[j] = rows[j] /\ keyring'[j] = keyring[j] /\ sessions'[j] = sessions[j],
         \A a \in Adapters : a # i => adapters'[a] = adapters[a],
         keyring'[i] = keyring[i] \/ keyring[i] = None,
         \/ sessions'[i] = None /\ adapters'[i] = adapters[i]
         \/ /\ sessions'[i] # None /\ adapters'[i] = "open" /\ keyring'[i] = keyring[i]
            /\ rows'[i] # None /\ rows'[i].kind # "s3"
            /\ sessions'[i].config = rows'[i].config
            /\ sessions'[i].password = keyring[i] /\ sessions'[i].adapter = i
  PROVE  Pieces'
<1>0. i \in Ids /\ \A c \in Calls : ~Under(c) /\ ~Under(c)'
  BY AtStart DEF Under
<1>1. ASSUME NEW c \in Calls PROVE InOrder(c)'
  <2>1. adapters'[c] = adapters[c]
    BY <1>0, ConstantsApart DEF Adapters
  <2> QED
    BY <1>0, <2>1 DEF Pieces, InOrder
<1>2. ASSUME NEW j \in Ids PROVE Good(j)'
  <2>0. Good(j)
    BY DEF Pieces
  <2>1. AloneAt(j)'
    BY <1>0 DEF AloneAt, Working
  <2>2. CASE j # i
    <3>1. \A a \in Adapters : Made(a, j) => adapters'[a] = adapters[a]
      BY <1>0, <2>2, ConstantsApart DEF Made
    <3>2. sessions[j] # None => sessions[j].adapter \in Adapters /\ adapters'[sessions[j].adapter] = adapters[sessions[j].adapter]
      BY <2>0, <3>1 DEF Good, AdapterIsOwn, Made, Adapters
    <3>3. SavedAt(j)' /\ KeptAt(j)' /\ AdapterIsOwn(j)'
      BY <2>0, <2>2 DEF Good, SavedAt, KeptAt, AdapterIsOwn
    <3>4. NoLeakAt(j)'
      BY <2>0, <2>2, <3>1 DEF Good, NoLeakAt, Made, Holds
    <3>5. UsableAt(j)'
      BY <2>0, <2>2, <3>2 DEF Good, UsableAt, Closing
    <3> QED
      BY <2>1, <3>3, <3>4, <3>5 DEF Good
  <2>3. CASE j = i
    <3>0. sessions[i] = None
      BY AtStart
    <3>1. SavedAt(j)'
      BY <2>3 DEF SavedAt
    <3>2. KeptAt(j)'
      BY <2>0, <2>3, ConstantsApart DEF Good, KeptAt, Pieces, Typed
    <3>3. AdapterIsOwn(j)'
      BY <2>3 DEF AdapterIsOwn
    <3>4. NoLeakAt(j)'
      BY <2>0, <2>3, <3>0 DEF Good, NoLeakAt, Made, Holds
    <3>5. UsableAt(j)'
      BY <2>3 DEF UsableAt
    <3> QED
      BY <2>1, <3>1, <3>2, <3>3, <3>4, <3>5 DEF Good
  <2> QED
    BY <2>2, <2>3
<1> QED
  BY <1>1, <1>2 DEF Pieces

LEMMA VisitKeeps ==
  ASSUME Pieces, NEW i \in todo, Visited(i), at' = at, migrating' = None,
         \A j \in Ids : j # i => rows'[j] = rows[j] /\ sessions'[j] = sessions[j]
  PROVE  StartFirst'
<1>1. StartFirst /\ i \in Ids /\ \A c \in Calls : ~Under(c)
  BY AtStart DEF Pieces
<1> QED
  BY <1>1 DEF StartFirst, Visited, Restorable, Under

(* The steps of the start.                                                 *)
LEMMA SkipRestoreKeeps == ASSUME Pieces, NEW i \in Ids, SkipRestore(i) PROVE Pieces'
<1>1. i \in todo /\ Visited(i) /\ migrating' = None
  BY DEF SkipRestore
<1>2. /\ op' = op /\ of' = of /\ own' = own /\ at' = at /\ got' = got /\ faults' = faults /\ promised' = promised
      /\ rows' = rows /\ keyring' = keyring /\ sessions' = sessions /\ adapters' = adapters /\ restarts' = restarts
  BY DEF SkipRestore, call, aux
<1>3. StartFirst'
  BY <1>1, <1>2, VisitKeeps
<1>4. Typed'
  BY <1>1, <1>2 DEF Pieces, Typed, Visited
<1>5. sessions'[i] = None
  BY <1>1, <1>2, AtStart
<1> QED
  BY <1>1, <1>2, <1>3, <1>4, <1>5, RestoreKeeps

LEMMA BeginMigrationKeeps == ASSUME Pieces, NEW i \in Ids, BeginMigration(i) PROVE Pieces'
<1>1. i \in todo /\ migrating' = i /\ todo' = todo /\ restored' = restored
  BY DEF BeginMigration
<1>2. /\ op' = op /\ of' = of /\ own' = own /\ at' = at /\ got' = got /\ faults' = faults /\ promised' = promised
      /\ rows' = rows /\ keyring' = keyring /\ sessions' = sessions /\ adapters' = adapters /\ restarts' = restarts
  BY DEF BeginMigration, call, aux
<1>3. StartFirst'
  BY <1>1, <1>2 DEF Pieces, StartFirst, Restorable, Under
<1>4. Typed'
  BY <1>1, <1>2 DEF Pieces, Typed
<1>5. sessions'[i] = None
  BY <1>1, <1>2, AtStart
<1> QED
  BY <1>1, <1>2, <1>3, <1>4, <1>5, RestoreKeeps

LEMMA StoreMigratedKeeps == ASSUME Pieces, NEW i \in Ids, StoreMigrated(i) PROVE Pieces'
<1>1. i \in todo /\ keyring[i] = None
  BY ConstantsApart DEF StoreMigrated, Pieces, StartFirst
<1>2. /\ op' = op /\ of' = of /\ own' = own /\ at' = at /\ got' = got /\ faults' = faults /\ promised' = promised
      /\ rows' = rows /\ sessions' = sessions /\ adapters' = adapters /\ restarts' = restarts
      /\ todo' = todo /\ restored' = restored /\ migrating' = migrating
      /\ keyring' = [keyring EXCEPT ![i] = rows[i].config]
  BY DEF StoreMigrated, call, aux
<1>3. StartFirst'
  BY <1>2 DEF Pieces, StartFirst, Restorable, Under
<1>4. rows[i].config \in Secrets
  BY <1>1, AtStart DEF Pieces, Typed, Row
<1>5. Typed'
  BY <1>2, <1>4 DEF Pieces, Typed
<1>6. \A j \in Ids : j # i => keyring'[j] = keyring[j]
  BY <1>2 DEF Pieces, Typed
<1>7. sessions'[i] = None
  BY <1>1, <1>2, AtStart
<1> QED
  BY <1>1, <1>2, <1>3, <1>5, <1>6, <1>7, RestoreKeeps

LEMMA MigrationFailsKeeps == ASSUME Pieces, NEW i \in Ids, MigrationFails(i) PROVE Pieces'
<1>1. i \in todo /\ Visited(i) /\ migrating' = None
  BY ConstantsApart DEF MigrationFails, Pieces, StartFirst
<1>2. /\ op' = op /\ of' = of /\ own' = own /\ at' = at /\ got' = got /\ faults' = faults /\ promised' = promised
      /\ rows' = rows /\ keyring' = keyring /\ sessions' = sessions /\ adapters' = adapters /\ restarts' = restarts
  BY DEF MigrationFails, call, aux
<1>3. StartFirst'
  BY <1>1, <1>2, VisitKeeps
<1>4. Typed'
  BY <1>1, <1>2 DEF Pieces, Typed, Visited
<1>5. sessions'[i] = None
  BY <1>1, <1>2, AtStart
<1> QED
  BY <1>1, <1>2, <1>3, <1>4, <1>5, RestoreKeeps

(* The session that is made at the start.                                  *)
LEMMA RestoredSessionDoes ==
  ASSUME Pieces, NEW i \in todo, RestoredSession(i, keyring[i])
  PROVE  /\ sessions' \in [Ids -> Session \cup {None}]
         /\ adapters' \in [Adapters -> {"none", "open", "closed"}]
         /\ \A j \in Ids : j # i => sessions'[j] = sessions[j]
         /\ \A a \in Adapters : a # i => adapters'[a] = adapters[a]
         /\ sessions'[i] # None /\ adapters'[i] = "open"
         /\ sessions'[i].config = rows[i].config /\ sessions'[i].password = keyring[i]
         /\ sessions'[i].adapter = i
<1>0. i \in Ids /\ i \in Adapters
  BY AtStart DEF Adapters
<1>1. rows[i].config \in Secrets
  BY AtStart DEF Pieces, Typed, Row
<1>2. keyring[i] \in Secrets \cup {None}
  BY <1>0 DEF Pieces, Typed
<1>3. PICK session \in Session : session = [config |-> rows[i].config, password |-> keyring[i], adapter |-> i]
  BY <1>0, <1>1, <1>2, SessionOf
<1>4. /\ session # None /\ session.config = rows[i].config
      /\ session.password = keyring[i] /\ session.adapter = i
  BY <1>0, <1>1, <1>2, <1>3, SessionOf
<1>5. sessions' = [sessions EXCEPT ![i] = session] /\ adapters' = [adapters EXCEPT ![i] = "open"]
  BY <1>3 DEF RestoredSession, Open
<1>6. sessions \in [Ids -> Session \cup {None}] /\ adapters \in [Adapters -> {"none", "open", "closed"}]
  BY DEF Pieces, Typed
<1> QED
  BY <1>0, <1>4, <1>5, <1>6

LEMMA RestoreDatabaseKeeps == ASSUME Pieces, NEW i \in Ids, RestoreDatabase(i) PROVE Pieces'
<1>1. i \in todo /\ Visited(i) /\ migrating' = None /\ rows[i].kind = "database" /\ RestoredSession(i, keyring[i])
  BY DEF RestoreDatabase
<1>2. /\ op' = op /\ of' = of /\ own' = own /\ at' = at /\ got' = got /\ faults' = faults /\ promised' = promised
      /\ rows' = rows /\ keyring' = keyring /\ restarts' = restarts
  BY DEF RestoreDatabase, call, aux
<1>3. /\ sessions' \in [Ids -> Session \cup {None}]
      /\ adapters' \in [Adapters -> {"none", "open", "closed"}]
      /\ \A j \in Ids : j # i => sessions'[j] = sessions[j]
      /\ \A a \in Adapters : a # i => adapters'[a] = adapters[a]
      /\ sessions'[i] # None /\ adapters'[i] = "open"
      /\ sessions'[i].config = rows[i].config /\ sessions'[i].password = keyring[i]
      /\ sessions'[i].adapter = i
  BY <1>1, RestoredSessionDoes
<1>4. StartFirst'
  BY <1>1, <1>2, <1>3, VisitKeeps
<1>5. Typed'
  BY <1>1, <1>2, <1>3 DEF Pieces, Typed, Visited
<1>6. rows'[i] # None /\ rows'[i].kind # "s3"
  BY <1>1, <1>2, AtStart
<1> QED
  BY <1>1, <1>2, <1>3, <1>4, <1>5, <1>6, RestoreKeeps

LEMMA FinishMigrationKeeps == ASSUME Pieces, NEW i \in Ids, FinishMigration(i) PROVE Pieces'
<1>1. i \in todo /\ Visited(i) /\ migrating' = None
  BY DEF FinishMigration
<1>2. /\ op' = op /\ of' = of /\ own' = own /\ at' = at /\ got' = got /\ faults' = faults /\ promised' = promised
      /\ keyring' = keyring /\ restarts' = restarts
  BY DEF FinishMigration, call, aux
<1>3. rows[i] \in Row /\ rows \in [Ids -> Row \cup {None}]
  BY <1>1, AtStart DEF Pieces, Typed
<1>4. PICK row \in Row : row = [rows[i] EXCEPT !.kind = "database"]
  BY <1>3, CleanRow
<1>5. row # None /\ row.config = rows[i].config /\ row.kind = "database"
  BY <1>3, <1>4, CleanRow
<1>6. rows' = [rows EXCEPT ![i] = row]
  BY <1>4 DEF FinishMigration
<1>7. rows' \in [Ids -> Row \cup {None}] /\ rows'[i] = row /\ \A j \in Ids : j # i => rows'[j] = rows[j]
  BY <1>3, <1>6
<1>8. CASE RestoredSession(i, keyring[i])
  <2>1. /\ sessions' \in [Ids -> Session \cup {None}]
        /\ adapters' \in [Adapters -> {"none", "open", "closed"}]
        /\ \A j \in Ids : j # i => sessions'[j] = sessions[j]
        /\ \A a \in Adapters : a # i => adapters'[a] = adapters[a]
        /\ sessions'[i] # None /\ adapters'[i] = "open"
        /\ sessions'[i].config = rows[i].config /\ sessions'[i].password = keyring[i]
        /\ sessions'[i].adapter = i
    BY <1>1, <1>8, RestoredSessionDoes
  <2>2. StartFirst'
    BY <1>1, <1>2, <1>7, <2>1, VisitKeeps
  <2>3. Typed'
    BY <1>1, <1>2, <1>7, <2>1 DEF Pieces, Typed, Visited
  <2> QED
    BY <1>1, <1>2, <1>5, <1>7, <2>1, <2>2, <2>3, RestoreKeeps
<1>9. CASE sessions' = sessions /\ adapters' = adapters
  <2>1. StartFirst'
    BY <1>1, <1>2, <1>7, <1>9, VisitKeeps
  <2>2. Typed'
    BY <1>1, <1>2, <1>7, <1>9 DEF Pieces, Typed, Visited
  <2>3. sessions'[i] = None
    BY <1>1, <1>9, AtStart
  <2> QED
    BY <1>1, <1>2, <1>7, <1>9, <2>1, <2>2, <2>3, RestoreKeeps
<1> QED
  BY <1>8, <1>9 DEF FinishMigration

-----------------------------------------------------------------------------
(* After a restart there are no sessions, no adapters and no calls.        *)
LEMMA RestartKeeps == ASSUME Pieces, Restart PROVE Pieces'
<1>1. /\ rows' = rows /\ keyring' = keyring /\ op' = op /\ of' = of /\ own' = own /\ promised' = promised
      /\ restarts' = restarts + 1 /\ restarts < MaxRestarts /\ migrating' = None
      /\ todo' = Restorable(rows) /\ restored' = (todo' = {})
  BY DEF Restart
<1>2. \A i \in Ids : sessions'[i] = None /\ faults'[i] = faults[i] \cap {"overlap"}
  BY DEF Restart
<1>3. \A a \in Adapters : adapters'[a] = "none"
  BY DEF Restart
<1>4. \A c \in Calls : at'[c] = IF Under(c) THEN "failed" ELSE at[c]
  BY DEF Restart
<1>5. \A c \in Calls : ~Under(c)'
  BY <1>4 DEF Under
<1>6. Typed'
  <2>1. sessions' \in [Ids -> Session \cup {None}] /\ adapters' \in [Adapters -> {"none", "open", "closed"}]
    BY DEF Restart
  <2>2. at' \in [Calls -> Places] /\ got' \in [Calls -> Secrets \cup {None}]
    BY DEF Restart, Pieces, Typed, Places
  <2>3. faults' \in [Ids -> SUBSET Faults]
    BY DEF Restart, Pieces, Typed
  <2>4. restored' \in BOOLEAN /\ todo' \subseteq Ids /\ migrating' \in Ids \cup {None}
    BY <1>1 DEF Restorable
  <2>5. restarts' \in 0 .. MaxRestarts
    BY <1>1, ConstantsApart DEF Pieces, Typed
  <2> QED
    BY <1>1, <2>1, <2>2, <2>3, <2>4, <2>5 DEF Pieces, Typed
<1>7. StartFirst'
  BY <1>1, <1>2, <1>5 DEF StartFirst, Restorable
<1>8. ASSUME NEW c \in Calls PROVE InOrder(c)'
  <2>1. InOrder(c) /\ adapters'[c] = "none"
    BY <1>3 DEF Pieces, Adapters
  <2>2. (at[c] = "idle") <=> (at'[c] = "idle")
    BY <1>4 DEF Under
  <2> QED
    BY <1>1, <1>5, <2>1, <2>2 DEF InOrder
<1>9. ASSUME NEW i \in Ids PROVE Good(i)'
  <2>0. Good(i) /\ sessions'[i] = None
    BY <1>2 DEF Pieces
  <2>1. SavedAt(i)' /\ UsableAt(i)' /\ AdapterIsOwn(i)'
    BY <2>0 DEF SavedAt, UsableAt, AdapterIsOwn
  <2>2. NoLeakAt(i)'
    BY <1>3 DEF NoLeakAt
  <2>3. KeptAt(i)'
    BY <1>1, <1>2, <2>0 DEF Good, KeptAt
  <2>4. AloneAt(i)'
    BY <1>5 DEF AloneAt, Working
  <2> QED
    BY <2>1, <2>2, <2>3, <2>4 DEF Good
<1> QED
  BY <1>6, <1>7, <1>8, <1>9 DEF Pieces

(* A call that hangs, and the steps of others.                             *)
LEMMA StutterKeeps ==
  ASSUME Pieces, UNCHANGED <<rows, keyring, sessions, adapters, call, got, boot, aux>>
  PROVE  Pieces'
<1>1. /\ rows' = rows /\ keyring' = keyring /\ sessions' = sessions /\ adapters' = adapters
      /\ restored' = restored /\ todo' = todo /\ migrating' = migrating
      /\ op' = op /\ of' = of /\ own' = own /\ at' = at /\ got' = got
      /\ restarts' = restarts /\ faults' = faults /\ promised' = promised
  BY DEF call, boot, aux
<1>2. Typed'
  BY <1>1 DEF Pieces, Typed
<1>3. StartFirst'
  BY <1>1 DEF Pieces, StartFirst, Restorable, Under
<1>4. ASSUME NEW c \in Calls PROVE InOrder(c)'
  BY <1>1 DEF Pieces, InOrder, Under, InCourse
<1>5. ASSUME NEW i \in Ids PROVE Good(i)'
  <2>0. Good(i)
    BY DEF Pieces
  <2>1. SavedAt(i)' /\ KeptAt(i)' /\ AdapterIsOwn(i)'
    BY <1>1, <2>0 DEF Good, SavedAt, KeptAt, AdapterIsOwn
  <2>2. NoLeakAt(i)' /\ UsableAt(i)'
    BY <1>1, <2>0 DEF Good, NoLeakAt, UsableAt, Made, Holds, Closing
  <2>3. AloneAt(i)'
    BY <1>1, <2>0 DEF Good, AloneAt, Working, Under, OnlyCall, SeenIsSo, Closing, At, Id
  <2> QED
    BY <2>1, <2>2, <2>3 DEF Good
<1> QED
  BY <1>2, <1>3, <1>4, <1>5 DEF Pieces

(* The first state, and every step.                                        *)
LEMMA InitPieces == ASSUME Init PROVE Pieces
<1>1. \A i \in Ids : sessions[i] = None /\ faults[i] = {} /\ promised[i] = None
  BY DEF Init
<1>2. \A a \in Adapters : adapters[a] = "none"
  BY DEF Init
<1>3. \A c \in Calls : at[c] = "idle" /\ op[c] = None /\ ~Under(c)
  BY DEF Init, Under
<1>4. Typed
  <2>1. rows \in [Ids -> Row \cup {None}] /\ keyring \in [Ids -> Secrets \cup {None}]
    BY DEF Init, Row, Secrets
  <2>2. sessions \in [Ids -> Session \cup {None}] /\ adapters \in [Adapters -> {"none", "open", "closed"}]
    BY DEF Init
  <2>3. restored \in BOOLEAN /\ todo \subseteq Ids /\ migrating \in Ids \cup {None}
    BY DEF Init, Restorable
  <2>4. /\ op \in [Calls -> Operations \cup {None}] /\ of \in [Calls -> Ids \cup {None}]
        /\ own \in [Calls -> BOOLEAN] /\ at \in [Calls -> Places] /\ got \in [Calls -> Secrets \cup {None}]
    BY DEF Init, Places
  <2>5. restarts \in 0 .. MaxRestarts
    BY ConstantsApart DEF Init
  <2>6. faults \in [Ids -> SUBSET Faults] /\ promised \in [Ids -> Calls \cup {None}]
    BY DEF Init
  <2> QED
    BY <2>1, <2>2, <2>3, <2>4, <2>5, <2>6 DEF Typed
<1>5. StartFirst
  BY <1>1, <1>3 DEF Init, StartFirst, Restorable
<1>6. ASSUME NEW c \in Calls PROVE InOrder(c)
  BY <1>2, <1>3 DEF InOrder, Adapters
<1>7. ASSUME NEW i \in Ids PROVE Good(i)
  <2>1. SavedAt(i) /\ UsableAt(i) /\ AdapterIsOwn(i) /\ KeptAt(i)
    BY <1>1 DEF SavedAt, UsableAt, AdapterIsOwn, KeptAt
  <2>2. NoLeakAt(i)
    BY <1>2 DEF NoLeakAt
  <2>3. AloneAt(i)
    BY <1>3 DEF AloneAt, Working
  <2> QED
    BY <2>1, <2>2, <2>3 DEF Good
<1> QED
  BY <1>4, <1>5, <1>6, <1>7 DEF Pieces

LEMMA ContinueKeeps == ASSUME Pieces, NEW c \in Calls, Continue(c) PROVE Pieces'
<1>1. CASE SetPassword(c) \/ SetFails(c)
  BY <1>1, SetPasswordKeeps, SetFailsKeeps
<1>2. CASE ReadRefused(c) \/ ReadThenClose(c) \/ ReadAndInstall(c)
  BY <1>2, ReadRefusedKeeps, ReadThenCloseKeeps, ReadAndInstallKeeps
<1>3. CASE InstallClosed(c) \/ MakeFails(c)
  BY <1>3, InstallClosedKeeps, MakeFailsKeeps
<1>4. CASE S3Closed(c) \/ S3Read(c) \/ S3Deleted(c)
  BY <1>4, S3ClosedKeeps, S3ReadKeeps, S3DeletedKeeps
<1>5. CASE RemoveClosed(c) \/ RemoveDone(c)
  BY <1>5, RemoveClosedKeeps, RemoveDoneKeeps
<1>6. CASE TestOpens(c) \/ TestEnds(c)
  BY <1>6, TestOpensKeeps, TestEndsKeeps
<1> QED
  BY <1>1, <1>2, <1>3, <1>4, <1>5, <1>6 DEF Continue

LEMMA NextKeeps == ASSUME Pieces, Next PROVE Pieces'
<1>1. CASE RestoreStep
  <2>1. PICK i \in Ids : \/ SkipRestore(i) \/ RestoreDatabase(i) \/ BeginMigration(i)
                         \/ StoreMigrated(i) \/ MigrationFails(i) \/ FinishMigration(i)
    BY <1>1 DEF RestoreStep
  <2> QED
    BY <2>1, SkipRestoreKeeps, RestoreDatabaseKeeps, BeginMigrationKeeps,
       StoreMigratedKeeps, MigrationFailsKeeps, FinishMigrationKeeps
<1>2. CASE Restart
  BY <1>2, RestartKeeps
<1>3. ASSUME NEW c \in Calls, Start(c) PROVE Pieces'
  <2>1. PICK i \in Touched : StartAdd(c, i) \/ StartTest(c, i) \/ StartS3(c, i) \/ StartRemove(c, i)
    BY <1>3 DEF Start
  <2> QED
    BY <2>1, StartAddKeeps, StartTestKeeps, StartS3Keeps, StartRemoveKeeps
<1>4. ASSUME NEW c \in Calls, Continue(c) PROVE Pieces'
  BY <1>4, ContinueKeeps
<1>5. ASSUME NEW c \in Calls, CloseHangs(c) PROVE Pieces'
  BY <1>5, StutterKeeps DEF CloseHangs
<1> QED
  BY <1>1, <1>2, <1>3, <1>4, <1>5 DEF Next

LEMMA StuckAreCalls == ASSUME stuck \subseteq Calls, Next PROVE stuck' \subseteq Calls
  BY DEF Next, RestoreStep, Restart, Start, Continue, CloseHangs

(* Whatever connections there are and calls about them, in whatever order  *)
(* their steps come: sessions run what is saved, no adapter is forgotten   *)
(* while calls do not overlap, and passwords survive.                      *)
THEOREM ConnectionsHold == ConnectionsSpec => []ConnectionInv
<1>1. ConnectionsInit => ConnectionInv
  <2> SUFFICES ASSUME ConnectionsInit PROVE ConnectionInv
    OBVIOUS
  <2>1. Init /\ stuck = {}
    BY DEF ConnectionsInit, Init
  <2> QED
    BY <2>1, InitPieces, FromPieces
<1>2. ConnectionInv /\ [ConnectionsNext]_<<about, vars, transferVars>> => ConnectionInv'
  <2> SUFFICES ASSUME ConnectionInv, [ConnectionsNext]_<<about, vars, transferVars>>
               PROVE  ConnectionInv'
    OBVIOUS
  <2>1. Pieces /\ stuck \subseteq Calls
    BY InPieces DEF ConnectionInv, TypeOK
  <2>2. CASE Next
    <3>1. Pieces' /\ (stuck \subseteq Calls)'
      BY <2>1, <2>2, NextKeeps, StuckAreCalls
    <3> QED
      BY <3>1, FromPieces, PTL
  <2>3. CASE UNCHANGED vars
    <3>1. Pieces' /\ (stuck \subseteq Calls)'
      BY <2>1, <2>3, StutterKeeps DEF vars, call, boot, aux
    <3> QED
      BY <3>1, FromPieces, PTL
  <2> QED
    BY <2>2, <2>3 DEF ConnectionsNext, SessionStep, TransferStep
<1> QED
  BY <1>1, <1>2, PTL DEF ConnectionsSpec

-----------------------------------------------------------------------------
(* A call writes and deletes the row of its own connection only.           *)
LEMMA OtherRowsStay ==
  ASSUME Pieces, NEW c \in Calls, Continue(c), NEW i \in Ids, of[c] # i
  PROVE  rows'[i] = rows[i]
<1>0. rows \in [Ids -> Row \cup {None}]
  BY DEF Pieces, Typed
<1>1. CASE SetPassword(c) \/ SetFails(c) \/ ReadRefused(c) \/ ReadThenClose(c) \/ MakeFails(c)
  BY <1>1 DEF SetPassword, SetFails, ReadRefused, ReadThenClose, MakeFails
<1>2. CASE ReadAndInstall(c) \/ InstallClosed(c)
  <2>1. PICK password : Install(c, password)
    BY <1>2 DEF ReadAndInstall, InstallClosed
  <2> QED
    BY <1>0, <2>1 DEF Install, Id
<1>3. CASE S3Closed(c) \/ RemoveDone(c) \/ TestOpens(c) \/ TestEnds(c)
  BY <1>3 DEF S3Closed, RemoveDone, TestOpens, TestEnds
<1>4. CASE S3Read(c) \/ S3Deleted(c)
  <2>1. S3Save(c) \/ rows' = rows
    BY <1>4 DEF S3Read, S3Deleted
  <2> QED
    BY <1>0, <2>1 DEF S3Save, Id
<1>5. CASE RemoveClosed(c)
  BY <1>0, <1>5 DEF RemoveClosed, Drop, Id
<1> QED
  BY <1>1, <1>2, <1>3, <1>4, <1>5 DEF Continue

(* At the start a row is cleaned when its password is in the keyring.      *)
LEMMA CleanedWithPassword ==
  ASSUME Pieces, RestoreStep, NEW i \in Ids
  PROVE  rows'[i] = rows[i] \/ keyring'[i] # None
<1>0. rows \in [Ids -> Row \cup {None}]
  BY DEF Pieces, Typed
<1>1. PICK j \in Ids : rows' = rows \/ FinishMigration(j)
  BY DEF RestoreStep, SkipRestore, RestoreDatabase, BeginMigration, StoreMigrated, MigrationFails
<1> QED
  BY <1>0, <1>1 DEF FinishMigration

(* However the migration fails and the backend restarts, the credential of *)
(* an old endpoint is in the row or in the keyring until a call of its own *)
(* connection.                                                             *)
THEOREM LegacyPasswordsAreKept == ConnectionsSpec => LegacyPasswordKept
<1> DEFINE Kept == \A i \in Ids :
      rows[i] # None /\ rows[i].kind = "legacy"
        => \/ rows'[i] = rows[i]
           \/ keyring'[i] # None
           \/ \E c \in Calls : Id(c) = i \/ of'[c] = i
<1>1. ConnectionInv /\ [ConnectionsNext]_<<about, vars, transferVars>> => [Kept]_vars
  <2> SUFFICES ASSUME ConnectionInv, Next, NEW i \in Ids
               PROVE  \/ rows'[i] = rows[i]
                      \/ keyring'[i] # None
                      \/ \E c \in Calls : Id(c) = i \/ of'[c] = i
    BY DEF ConnectionsNext, SessionStep, TransferStep
  <2>1. Pieces
    BY InPieces
  <2>2. CASE RestoreStep
    BY <2>1, <2>2, CleanedWithPassword
  <2>3. CASE Restart
    BY <2>3 DEF Restart
  <2>4. ASSUME NEW c \in Calls, Start(c)
        PROVE  rows'[i] = rows[i] \/ of'[c] = i
    <3>1. PICK j \in Touched : StartAdd(c, j) \/ StartTest(c, j) \/ StartS3(c, j) \/ StartRemove(c, j)
      BY <2>4 DEF Start
    <3>2. rows \in [Ids -> Row \cup {None}] /\ of \in [Calls -> Ids \cup {None}]
      BY <2>1 DEF Pieces, Typed
    <3>3. CASE StartAdd(c, j) \/ StartTest(c, j) \/ StartS3(c, j)
      BY <3>3 DEF StartAdd, StartTest, StartS3
    <3>4. CASE StartRemove(c, j)
      <4>1. of' = [of EXCEPT ![c] = j]
        BY <3>4 DEF StartRemove, Begin
      <4>2. rows' = rows \/ rows' = [rows EXCEPT ![j] = None]
        BY <3>4 DEF StartRemove, Drop
      <4> QED
        BY <3>2, <4>1, <4>2
    <3> QED
      BY <3>1, <3>3, <3>4
  <2>5. ASSUME NEW c \in Calls, Continue(c)
        PROVE  rows'[i] = rows[i] \/ of[c] = i
    BY <2>1, <2>5, OtherRowsStay
  <2>6. ASSUME NEW c \in Calls, CloseHangs(c)
        PROVE  rows'[i] = rows[i]
    BY <2>6 DEF CloseHangs
  <2> QED
    BY <2>2, <2>3, <2>4, <2>5, <2>6 DEF Next, Id
<1> QED
  BY <1>1, ConnectionsHold, PTL DEF ConnectionsSpec, LegacyPasswordKept, Kept

-----------------------------------------------------------------------------
(* ConnectionTransfer.  TransferInv is inductive: what a candidate is      *)
(* (ParseIs), what is chosen (ChosenIs), what stays true of a candidate    *)
(* while connections are added (the ..Stays), and then each action.        *)

(* Cardinality is the same under the name of the instance.                 *)
LEMMA SameCardinality == \A S : T!Cardinality(S) = Cardinality(S)
BY DEF T!Cardinality, Cardinality

(* A sequence is one of its own items.                                     *)
LEMMA SeqIs ==
  ASSUME NEW s, s \in Seq(T!Range(s))
  PROVE  Len(s) \in Nat /\ DOMAIN s = 1 .. Len(s) /\ \A n \in DOMAIN s : s[n] \in T!Range(s)
BY DEF T!Range

LEMMA AppendIs ==
  ASSUME NEW s, s \in Seq(T!Range(s)), NEW x
  PROVE  /\ Append(s, x) \in Seq(T!Range(Append(s, x)))
         /\ DOMAIN Append(s, x) = 1 .. Len(s) + 1
         /\ \A n \in DOMAIN s : n \in DOMAIN Append(s, x) /\ Append(s, x)[n] = s[n]
         /\ Append(s, x)[Len(s) + 1] = x
         /\ \A n \in DOMAIN Append(s, x) : n \in DOMAIN s \/ n = Len(s) + 1
<1> DEFINE t == Append(s, x)
<1>1. s \in Seq(T!Range(s) \cup {x})
  OBVIOUS
<1>2. t \in Seq(T!Range(s) \cup {x}) /\ Len(t) = Len(s) + 1 /\ Len(s) \in Nat
  BY <1>1
<1>3. DOMAIN t = 1 .. Len(s) + 1 /\ DOMAIN s = 1 .. Len(s)
  BY <1>1, <1>2
<1>4. /\ \A n \in 1 .. Len(s) : t[n] = s[n]
      /\ t[Len(s) + 1] = x
  BY <1>1
<1> HIDE DEF t
<1>5. t \in Seq(T!Range(t))
  <2>1. t = [i \in 1 .. Len(t) |-> t[i]] /\ DOMAIN t = 1 .. Len(t)
    BY <1>2
  <2>2. \A i \in 1 .. Len(t) : t[i] \in T!Range(t)
    BY <2>1 DEF T!Range
  <2>3. Len(t) \in Nat
    BY <1>2
  <2> QED
    BY <2>1, <2>2, <2>3
<1> QED
  BY <1>2, <1>3, <1>4, <1>5 DEF t

(* The places in their order: the k-th is the one with k up to it.         *)
LEMMA NthIs ==
  ASSUME NEW places \in SUBSET Nat, IsFiniteSet(places)
  PROVE  /\ Cardinality(places) \in Nat
         /\ \A k \in 1 .. Cardinality(places) : T!Nth(places, k) \in places
         /\ \A i \in places : \E k \in 1 .. Cardinality(places) : T!Nth(places, k) = i
         /\ \A j, k \in 1 .. Cardinality(places) : j < k => T!Nth(places, j) < T!Nth(places, k)
<1> DEFINE UpTo(i) == {m \in places : m <= i}
           n == Cardinality(places)
<1>1. places \subseteq Nat /\ IsFiniteSet(places) /\ n \in Nat
  BY FS_CardinalityType
<1> HIDE DEF n
<1>2. ASSUME NEW i \in places PROVE IsFiniteSet(UpTo(i)) /\ Cardinality(UpTo(i)) \in 1 .. n
  <2>1. UpTo(i) \in SUBSET places
    OBVIOUS
  <2>2. IsFiniteSet(UpTo(i)) /\ Cardinality(UpTo(i)) <= n
    BY <1>1, <2>1, FS_Subset DEF n
  <2>3. UpTo(i) # {}
    BY <1>1
  <2>4. Cardinality(UpTo(i)) \in Nat /\ Cardinality(UpTo(i)) # 0
    BY <2>2, <2>3, FS_CardinalityType, FS_EmptySet
  <2> QED
    BY <1>1, <2>2, <2>4
<1>3. ASSUME NEW i \in places, NEW j \in places, i < j PROVE Cardinality(UpTo(i)) < Cardinality(UpTo(j))
  <2>a. i \in Nat /\ j \in Nat /\ i < j
    BY <1>1, <1>3
  <2>b. \A m \in Nat : m <= i => m <= j
    BY <2>a
  <2>1. UpTo(i) \in SUBSET UpTo(j) /\ UpTo(i) # UpTo(j)
    <3>1. UpTo(i) \in SUBSET UpTo(j)
      BY <1>1, <2>b
    <3>2. j \in UpTo(j) /\ j \notin UpTo(i)
      BY <2>a
    <3> QED
      BY <3>1, <3>2
  <2>2. Cardinality(UpTo(i)) <= Cardinality(UpTo(j)) /\ Cardinality(UpTo(i)) # Cardinality(UpTo(j))
    BY <1>2, <2>1, FS_Subset
  <2>3. Cardinality(UpTo(i)) \in Nat /\ Cardinality(UpTo(j)) \in Nat
    BY <1>2, FS_CardinalityType
  <2> HIDE DEF UpTo
  <2> QED
    BY <2>2, <2>3
<1> DEFINE rank == [i \in places |-> Cardinality(UpTo(i))]
<1>4. rank \in [places -> 1 .. n] /\ \A i \in places : rank[i] = Cardinality(UpTo(i))
  BY <1>2
<1>5. \A i, j \in places : i < j => rank[i] < rank[j]
  BY <1>3, <1>4
<1> HIDE DEF rank
<1>6. \A i, j \in places : rank[i] = rank[j] => i = j
  BY <1>1, <1>4, <1>5
<1>7. \A k \in 1 .. n : \E i \in places : rank[i] = k
  <2>1. rank \in Injection(places, 1 .. n)
    BY <1>4, <1>6 DEF Injection, IsInjective
  <2>2. IsFiniteSet(1 .. n) /\ Cardinality(1 .. n) = n
    BY <1>1, FS_Interval
  <2>3. rank \in Surjection(places, 1 .. n)
    BY <2>1, <2>2, <1>1, FS_Injection DEF n
  <2> QED
    BY <2>3 DEF Surjection
<1> DEFINE from == [k \in 1 .. n |-> CHOOSE i \in places : rank[i] = k]
<1>8. from \in [1 .. n -> places] /\ \A k \in 1 .. n : rank[from[k]] = k
  BY <1>7
<1>9. \A k \in 1 .. n : T!Nth(places, k) = from[k]
  <2> SUFFICES ASSUME NEW k \in 1 .. n PROVE T!Nth(places, k) = from[k]
    OBVIOUS
  <2>1. from[k] \in places /\ Cardinality(UpTo(from[k])) = k
    BY <1>4, <1>8
  <2>2. \A i \in places : Cardinality(UpTo(i)) = k => i = from[k]
    BY <1>4, <1>6, <1>8, <2>1
  <2>3. T!Nth(places, k) = CHOOSE i \in places : Cardinality(UpTo(i)) = k
    BY SameCardinality DEF T!Nth
  <2> HIDE DEF from, UpTo
  <2> QED
    BY <2>1, <2>2, <2>3
<1> HIDE DEF from
<1>10. \A i \in places : \E k \in 1 .. n : from[k] = i
  <2> TAKE i \in places
  <2>1. rank[i] \in 1 .. n
    BY <1>4
  <2>2. from[rank[i]] = i
    BY <1>6, <1>8, <2>1
  <2> QED
    BY <2>1, <2>2
<1>11. \A j, k \in 1 .. n : j < k => from[j] < from[k]
  <2> SUFFICES ASSUME NEW j \in 1 .. n, NEW k \in 1 .. n, j < k PROVE from[j] < from[k]
    OBVIOUS
  <2>1. from[j] \in places /\ from[k] \in places /\ rank[from[j]] = j /\ rank[from[k]] = k
    BY <1>8
  <2>2. from[j] \in Nat /\ from[k] \in Nat
    BY <1>1, <2>1
  <2>3. from[j] # from[k]
    BY <2>1
  <2>4. ~(from[k] < from[j])
    <3>1. from[k] < from[j] => k < j
      BY <1>5, <2>1
    <3> QED
      BY <1>1, <3>1
  <2> QED
    BY <2>2, <2>3, <2>4
<1> HIDE DEF n
<1> QED
  BY <1>1, <1>8, <1>9, <1>10, <1>11 DEF n

LEMMA InOrderIs ==
  ASSUME NEW s, s \in Seq(T!Range(s)), NEW places \in SUBSET DOMAIN s
  PROVE  LET n == Cardinality(places)
         IN /\ n \in Nat /\ T!InOrder(s, places) \in Seq(T!Range(s)) /\ Len(T!InOrder(s, places)) = n
            /\ \A k \in 1 .. n : T!InOrder(s, places)[k] = s[T!Nth(places, k)] /\ T!Nth(places, k) \in places
            /\ \A i \in places : \E k \in 1 .. n : T!Nth(places, k) = i
            /\ \A j, k \in 1 .. n : j < k => T!Nth(places, j) < T!Nth(places, k)
<1> DEFINE n == Cardinality(places)
<1>1. Len(s) \in Nat /\ DOMAIN s = 1 .. Len(s)
  BY SeqIs
<1>2. places \in SUBSET Nat /\ IsFiniteSet(places)
  <2>1. IsFiniteSet(1 .. Len(s)) /\ places \in SUBSET (1 .. Len(s))
    BY <1>1, FS_Interval
  <2>2. IsFiniteSet(places)
    BY <2>1, FS_Subset
  <2> QED
    BY <1>1, <2>1, <2>2
<1>3. /\ n \in Nat
      /\ \A k \in 1 .. n : T!Nth(places, k) \in places
      /\ \A i \in places : \E k \in 1 .. n : T!Nth(places, k) = i
      /\ \A j, k \in 1 .. n : j < k => T!Nth(places, j) < T!Nth(places, k)
  BY <1>2, NthIs
<1>4. T!InOrder(s, places) = [k \in 1 .. n |-> s[T!Nth(places, k)]]
  BY SameCardinality DEF T!InOrder
<1> HIDE DEF n
<1>5. T!InOrder(s, places) \in [1 .. n -> T!Range(s)]
  <2>1. \A k \in 1 .. n : s[T!Nth(places, k)] \in T!Range(s)
    BY <1>3, SeqIs
  <2> QED
    BY <1>4, <2>1
<1>6. T!InOrder(s, places) \in Seq(T!Range(s)) /\ Len(T!InOrder(s, places)) = n
  BY <1>3, <1>5
<1>7. \A k \in 1 .. n : T!InOrder(s, places)[k] = s[T!Nth(places, k)]
  BY <1>4
<1> QED
  BY <1>3, <1>6, <1>7 DEF n
(* A candidate has what its entry has; its status is "ready" when it has   *)
(* an address and repeats nothing that exists, nor an earlier one.         *)
LEMMA AsCandidatesIs ==
  ASSUME NEW fr, NEW f, NEW secrets, NEW n \in DOMAIN f.entries
  PROVE  LET c == T!AsCandidates(fr, f, secrets)[n]
         IN /\ c = [ref |-> c.ref, folder |-> c.folder, dialect |-> c.dialect, place |-> c.place,
                    user |-> c.user, password |-> c.password, catalog |-> c.catalog, status |-> c.status]
            /\ c.ref = f.entries[n].ref /\ c.dialect = f.entries[n].dialect
            /\ c.folder = f.entries[n].folder /\ c.catalog = f.entries[n].catalog
            /\ c.status \in {"ready", "unsupported"}
<1>1. ASSUME NEW place, NEW user, NEW password
      PROVE  LET c == T!Candidate(f.entries[n], place, user, password)
             IN /\ c = [ref |-> c.ref, folder |-> c.folder, dialect |-> c.dialect, place |-> c.place,
                        user |-> c.user, password |-> c.password, catalog |-> c.catalog, status |-> c.status]
                /\ c.ref = f.entries[n].ref /\ c.dialect = f.entries[n].dialect
                /\ c.folder = f.entries[n].folder /\ c.catalog = f.entries[n].catalog
                /\ c.status \in {"ready", "unsupported"}
  BY DEF T!Candidate
<1>2. CASE fr = "omni-sql"
  <2>1. T!AsCandidates(fr, f, secrets)[n] = T!Candidate(f.entries[n], f.entries[n].host, f.entries[n].user, None)
    BY <1>2 DEF T!AsCandidates, T!OmniSqlCandidate
  <2> QED
    BY <1>1, <2>1
<1>3. CASE fr # "omni-sql"
  <2>1. PICK place, user, password :
          T!AsCandidates(fr, f, secrets)[n] = T!Candidate(f.entries[n], place, user, password)
    BY <1>3 DEF T!AsCandidates, T!DbeaverCandidate
  <2> QED
    BY <1>1, <2>1
<1> QED
  BY <1>2, <1>3

LEMMA MarkedIs ==
  ASSUME NEW cs, NEW existing, NEW n \in DOMAIN cs,
         cs[n] = [ref |-> cs[n].ref, folder |-> cs[n].folder, dialect |-> cs[n].dialect,
                  place |-> cs[n].place, user |-> cs[n].user, password |-> cs[n].password,
                  catalog |-> cs[n].catalog, status |-> cs[n].status],
         cs[n].status \in {"ready", "unsupported"}
  PROVE  LET c == T!MarkDuplicates(cs, existing)[n]
         IN /\ c.ref = cs[n].ref /\ c.folder = cs[n].folder /\ c.dialect = cs[n].dialect
            /\ c.place = cs[n].place /\ c.user = cs[n].user
            /\ c.password = cs[n].password /\ c.catalog = cs[n].catalog
            /\ T!HasConfig(c) <=> T!HasConfig(cs[n])
            /\ c.status = "ready" <=>
                 /\ cs[n].status = "ready"
                 /\ \A d \in existing : ~T!Repeats(cs[n], d)
                 /\ \A j \in DOMAIN cs : j < n /\ T!HasConfig(cs[j]) => ~T!Repeats(cs[n], cs[j])
<1> DEFINE known == existing \cup {cs[j] : j \in {k \in DOMAIN cs : k < n /\ T!HasConfig(cs[k])}}
           double == T!HasConfig(cs[n]) /\ \E c \in known : T!Repeats(cs[n], c)
<1>1. T!MarkDuplicates(cs, existing)[n] = IF double THEN [cs[n] EXCEPT !.status = "duplicate"] ELSE cs[n]
  BY DEF T!MarkDuplicates
<1>2. (\A c \in known : ~T!Repeats(cs[n], c)) <=>
        /\ \A d \in existing : ~T!Repeats(cs[n], d)
        /\ \A j \in DOMAIN cs : j < n /\ T!HasConfig(cs[j]) => ~T!Repeats(cs[n], cs[j])
  OBVIOUS
<1>3. cs[n].status = "ready" => T!HasConfig(cs[n])
  BY DEF T!HasConfig
<1>4. CASE double
  <2>1. T!MarkDuplicates(cs, existing)[n] =
          [ref |-> cs[n].ref, folder |-> cs[n].folder, dialect |-> cs[n].dialect,
           place |-> cs[n].place, user |-> cs[n].user, password |-> cs[n].password,
           catalog |-> cs[n].catalog, status |-> "duplicate"]
    BY <1>1, <1>4
  <2> QED
    BY <1>2, <1>4, <2>1 DEF T!HasConfig
<1>5. CASE ~double
  <2>1. T!MarkDuplicates(cs, existing)[n] = cs[n]
    BY <1>1, <1>5
  <2> HIDE DEF known
  <2> QED
    BY <1>2, <1>3, <1>5, <2>1
<1> QED
  BY <1>4, <1>5

LEMMA ParseIs ==
  ASSUME NEW fr, NEW f, NEW existing, NEW secrets
  PROVE  LET r == T!AsCandidates(fr, f, secrets)
             p == T!ParseConnectionImport(fr, f, existing, secrets)
         IN /\ DOMAIN p = DOMAIN f.entries /\ DOMAIN r = DOMAIN f.entries
            /\ \A n \in DOMAIN f.entries :
                 /\ p[n].ref = f.entries[n].ref /\ p[n].catalog = f.entries[n].catalog
                 /\ p[n].dialect = f.entries[n].dialect /\ r[n].dialect = f.entries[n].dialect
                 /\ T!EndpointKey(p[n]) = T!EndpointKey(r[n]) /\ p[n].user = r[n].user
                 /\ T!HasConfig(p[n]) <=> T!HasConfig(r[n])
                 /\ p[n].status = "ready" <=>
                      /\ r[n].status = "ready"
                      /\ \A d \in existing : ~T!Repeats(r[n], d)
                      /\ \A j \in DOMAIN r : j < n /\ T!HasConfig(r[j]) => ~T!Repeats(r[n], r[j])
<1> DEFINE r == T!AsCandidates(fr, f, secrets)
           p == T!ParseConnectionImport(fr, f, existing, secrets)
<1>1. DOMAIN r = DOMAIN f.entries
  BY DEF T!AsCandidates
<1>2. p = T!MarkDuplicates(r, existing)
  BY DEF T!ParseConnectionImport
<1>3. DOMAIN p = DOMAIN f.entries
  BY <1>1, <1>2 DEF T!MarkDuplicates
<1>5. ASSUME NEW n \in DOMAIN f.entries
      PROVE  /\ p[n].ref = f.entries[n].ref /\ p[n].catalog = f.entries[n].catalog
             /\ p[n].dialect = f.entries[n].dialect /\ r[n].dialect = f.entries[n].dialect
             /\ T!EndpointKey(p[n]) = T!EndpointKey(r[n]) /\ p[n].user = r[n].user
             /\ T!HasConfig(p[n]) <=> T!HasConfig(r[n])
             /\ p[n].status = "ready" <=>
                  /\ r[n].status = "ready"
                  /\ \A d \in existing : ~T!Repeats(r[n], d)
                  /\ \A j \in DOMAIN r : j < n /\ T!HasConfig(r[j]) => ~T!Repeats(r[n], r[j])
  <2> HIDE DEF r, p
  <2>1. /\ r[n] = [ref |-> r[n].ref, folder |-> r[n].folder, dialect |-> r[n].dialect, place |-> r[n].place,
                   user |-> r[n].user, password |-> r[n].password, catalog |-> r[n].catalog,
                   status |-> r[n].status]
        /\ r[n].ref = f.entries[n].ref /\ r[n].dialect = f.entries[n].dialect
        /\ r[n].catalog = f.entries[n].catalog /\ r[n].status \in {"ready", "unsupported"}
    BY AsCandidatesIs DEF r
  <2>2. /\ p[n].ref = r[n].ref /\ p[n].dialect = r[n].dialect
        /\ p[n].place = r[n].place /\ p[n].user = r[n].user /\ p[n].catalog = r[n].catalog
        /\ T!HasConfig(p[n]) <=> T!HasConfig(r[n])
        /\ p[n].status = "ready" <=>
             /\ r[n].status = "ready"
             /\ \A d \in existing : ~T!Repeats(r[n], d)
             /\ \A j \in DOMAIN r : j < n /\ T!HasConfig(r[j]) => ~T!Repeats(r[n], r[j])
    BY <1>1, <1>2, <2>1, MarkedIs
  <2>3. T!EndpointKey(p[n]) = T!EndpointKey(r[n])
    BY <2>2 DEF T!EndpointKey
  <2> QED
    BY <2>1, <2>2, <2>3
<1> HIDE DEF r, p
<1> QED
  BY <1>1, <1>3, <1>5 DEF r, p

LEMMA ParsedIsSeq ==
  ASSUME NEW fr, NEW f, NEW existing, NEW secrets, f.entries \in Seq(T!Range(f.entries))
  PROVE  LET p == T!ParseConnectionImport(fr, f, existing, secrets) IN p \in Seq(T!Range(p))
<1> DEFINE p == T!ParseConnectionImport(fr, f, existing, secrets)
<1>1. DOMAIN p = DOMAIN f.entries /\ p = [n \in DOMAIN p |-> p[n]]
  BY DEF T!ParseConnectionImport, T!MarkDuplicates, T!AsCandidates
<1> HIDE DEF p
<1>2. Len(f.entries) \in Nat /\ DOMAIN p = 1 .. Len(f.entries)
  BY <1>1, SeqIs
<1>3. \A n \in 1 .. Len(f.entries) : p[n] \in T!Range(p)
  BY <1>2 DEF T!Range
<1>4. p \in [1 .. Len(f.entries) -> T!Range(p)]
  BY <1>1, <1>2, <1>3
<1>5. p \in Seq(T!Range(p))
  BY <1>2, <1>4
<1> QED
  BY <1>5 DEF p

LEMMA ConcatIs ==
  ASSUME NEW S, NEW u \in Seq(S), NEW v \in Seq(S)
  PROVE  /\ u \o v \in Seq(S) /\ Len(u \o v) = Len(u) + Len(v)
         /\ \A k \in 1 .. Len(u) : (u \o v)[k] = u[k]
         /\ \A k \in 1 .. Len(u) + Len(v) : k > Len(u) => (u \o v)[k] = v[k - Len(u)]
OBVIOUS

(* What is chosen is what is checked, S3 last, and else in the order of    *)
(* the file: the k-th is from[k].                                          *)
ChosenFrom(s, refs, from) ==
  LET C == T!Chosen(s, refs)
  IN /\ C \in Seq(T!Range(C)) /\ from \in [DOMAIN C -> T!Checked(s, refs)]
     /\ \A k \in DOMAIN C : C[k] = s[from[k]]
     /\ \A i \in T!Checked(s, refs) : \E k \in DOMAIN C : from[k] = i
     /\ \A j, k \in DOMAIN C : j < k =>
          \/ from[j] < from[k] /\ (s[from[j]].dialect = "s3" <=> s[from[k]].dialect = "s3")
          \/ s[from[j]].dialect # "s3" /\ s[from[k]].dialect = "s3"

LEMMA ChosenIs ==
  ASSUME NEW s, s \in Seq(T!Range(s)), NEW refs
  PROVE  \E from : ChosenFrom(s, refs, from)
<1> DEFINE A == T!Checked(s, refs) \ T!S3(s)
           B == T!Checked(s, refs) \cap T!S3(s)
           a == Cardinality(A)
           b == Cardinality(B)
           x == [k \in 1 .. a |-> T!Nth(A, k)]
           y == [k \in 1 .. b |-> T!Nth(B, k)]
<1>1. A \in SUBSET DOMAIN s /\ B \in SUBSET DOMAIN s
  BY DEF T!Checked
<1>2. /\ \A i \in A : s[i].dialect # "s3"
      /\ \A i \in B : s[i].dialect = "s3"
      /\ T!Checked(s, refs) = A \cup B
  BY <1>1 DEF T!S3
<1> HIDE DEF A, B
<1>3. /\ a \in Nat /\ x \in [1 .. a -> A]
      /\ T!InOrder(s, A) \in Seq(T!Range(s)) /\ Len(T!InOrder(s, A)) = a
      /\ \A k \in 1 .. a : T!InOrder(s, A)[k] = s[x[k]]
      /\ \A i \in A : \E k \in 1 .. a : x[k] = i
      /\ \A j, k \in 1 .. a : j < k => x[j] < x[k]
  BY <1>1, InOrderIs
<1>4. /\ b \in Nat /\ y \in [1 .. b -> B]
      /\ T!InOrder(s, B) \in Seq(T!Range(s)) /\ Len(T!InOrder(s, B)) = b
      /\ \A k \in 1 .. b : T!InOrder(s, B)[k] = s[y[k]]
      /\ \A i \in B : \E k \in 1 .. b : y[k] = i
      /\ \A j, k \in 1 .. b : j < k => y[j] < y[k]
  BY <1>1, InOrderIs
<1> HIDE DEF a, b, x, y
<1> DEFINE from == [k \in 1 .. a + b |-> IF k <= a THEN x[k] ELSE y[k - a]]
           C == T!Chosen(s, refs)
<1>5. from \in [1 .. a + b -> T!Checked(s, refs)]
  BY <1>2, <1>3, <1>4
<1>6. C \in Seq(T!Range(C)) /\ Len(C) = a + b /\ \A k \in 1 .. a + b : C[k] = s[from[k]]
  <2>1. C = T!InOrder(s, A) \o T!InOrder(s, B)
    BY DEF T!Chosen, A, B
  <2> HIDE DEF C, from
  <2>2. C \in Seq(T!Range(s)) /\ Len(C) = a + b
    BY <1>3, <1>4, <2>1, ConcatIs
  <2>3. \A k \in 1 .. a + b : C[k] = s[from[k]]
    <3> SUFFICES ASSUME NEW k \in 1 .. a + b PROVE C[k] = s[from[k]]
      OBVIOUS
    <3>1. CASE k <= a
      <4>1. C[k] = T!InOrder(s, A)[k] /\ k \in 1 .. a
        BY <1>3, <1>4, <2>1, <3>1, ConcatIs
      <4> QED
        BY <1>3, <3>1, <4>1 DEF from
    <3>2. CASE ~(k <= a)
      <4> DEFINE u == T!InOrder(s, A)
                 v == T!InOrder(s, B)
      <4> HIDE DEF u, v
      <4>3. u \in Seq(T!Range(s)) /\ v \in Seq(T!Range(s)) /\ Len(u) = a /\ Len(v) = b /\ C = u \o v
        BY <1>3, <1>4, <2>1 DEF u, v
      <4>4. a \in Nat /\ k > a
        BY <1>3, <1>4, <3>2
      <4>1. C[k] = T!InOrder(s, B)[k - a]
        BY <4>3, <4>4, ConcatIs DEF v
      <4>2. k - a \in 1 .. b
        BY <1>3, <1>4, <3>2
      <4> QED
        BY <1>4, <3>2, <4>1, <4>2 DEF from
    <3> QED
      BY <3>1, <3>2
  <2>4. C = [k \in 1 .. a + b |-> C[k]] /\ DOMAIN C = 1 .. a + b
    BY <2>2
  <2>5. \A k \in 1 .. a + b : C[k] \in T!Range(C)
    BY <2>4 DEF T!Range
  <2>6. C \in [1 .. a + b -> T!Range(C)]
    BY <2>4, <2>5
  <2>7. a + b \in Nat
    BY <1>3, <1>4
  <2> QED
    BY <2>2, <2>3, <2>6, <2>7
<1>7. \A i \in T!Checked(s, refs) : \E k \in 1 .. a + b : from[k] = i
  <2> SUFFICES ASSUME NEW i \in T!Checked(s, refs) PROVE \E k \in 1 .. a + b : from[k] = i
    OBVIOUS
  <2>1. CASE i \in A
    <3>1. PICK k \in 1 .. a : x[k] = i
      BY <1>3, <2>1
    <3> QED
      BY <1>3, <1>4, <3>1
  <2>2. CASE i \in B
    <3>1. PICK k \in 1 .. b : y[k] = i
      BY <1>4, <2>2
    <3>2. k + a \in 1 .. a + b /\ ~(k + a <= a) /\ (k + a) - a = k
      BY <1>3, <1>4, <3>1
    <3> QED
      BY <3>1, <3>2
  <2> QED
    BY <1>2, <2>1, <2>2
<1>8. \A j, k \in 1 .. a + b : j < k =>
        \/ from[j] < from[k] /\ (s[from[j]].dialect = "s3" <=> s[from[k]].dialect = "s3")
        \/ s[from[j]].dialect # "s3" /\ s[from[k]].dialect = "s3"
  <2> SUFFICES ASSUME NEW j \in 1 .. a + b, NEW k \in 1 .. a + b, j < k
               PROVE  \/ from[j] < from[k] /\ (s[from[j]].dialect = "s3" <=> s[from[k]].dialect = "s3")
                      \/ s[from[j]].dialect # "s3" /\ s[from[k]].dialect = "s3"
    OBVIOUS
  <2>1. CASE k <= a
    <3>1. from[j] = x[j] /\ from[k] = x[k] /\ j \in 1 .. a /\ k \in 1 .. a
      BY <1>3, <1>4, <2>1
    <3>2. x[j] \in A /\ x[k] \in A /\ x[j] < x[k]
      BY <1>3, <3>1
    <3> QED
      BY <1>2, <3>1, <3>2
  <2>2. CASE j <= a /\ ~(k <= a)
    <3>1. from[j] = x[j] /\ from[k] = y[k - a] /\ j \in 1 .. a /\ k - a \in 1 .. b
      BY <1>3, <1>4, <2>2
    <3>2. x[j] \in A /\ y[k - a] \in B
      BY <1>3, <1>4, <3>1
    <3> QED
      BY <1>2, <3>1, <3>2
  <2>3. CASE ~(j <= a)
    <3>1. /\ from[j] = y[j - a] /\ from[k] = y[k - a] /\ j - a \in 1 .. b /\ k - a \in 1 .. b
          /\ j - a < k - a
      BY <1>3, <1>4, <2>3
    <3>2. y[j - a] \in B /\ y[k - a] \in B /\ y[j - a] < y[k - a]
      BY <1>4, <3>1
    <3> QED
      BY <1>2, <3>1, <3>2
  <2> QED
    BY <2>1, <2>2, <2>3
<1> HIDE DEF from, C
<1>9. a + b \in Nat
  BY <1>3, <1>4
<1>10. DOMAIN C = 1 .. a + b
  BY <1>6, <1>9
<1>11. from \in [DOMAIN C -> T!Checked(s, refs)]
  BY <1>5, <1>10
<1>12. ChosenFrom(s, refs, from)
  <2> SUFFICES /\ C \in Seq(T!Range(C)) /\ from \in [DOMAIN C -> T!Checked(s, refs)]
               /\ \A k \in DOMAIN C : C[k] = s[from[k]]
               /\ \A i \in T!Checked(s, refs) : \E k \in DOMAIN C : from[k] = i
               /\ \A j, k \in DOMAIN C : j < k =>
                    \/ from[j] < from[k] /\ (s[from[j]].dialect = "s3" <=> s[from[k]].dialect = "s3")
                    \/ s[from[j]].dialect # "s3" /\ s[from[k]].dialect = "s3"
    BY DEF C, ChosenFrom
  <2> QED
    BY <1>6, <1>7, <1>8, <1>10, <1>11
<1> QED
  BY <1>12
-----------------------------------------------------------------------------
(* What is true of a candidate stays true of it while connections are      *)
(* added, and while their groups change.                                   *)
LEMMA LinkedStays ==
  ASSUME NEW c, NEW cs, NEW ds, T!Linked(c, cs),
         \A n \in DOMAIN cs : n \in DOMAIN ds /\ ds[n].dialect = cs[n].dialect
  PROVE  T!Linked(c, ds)
BY DEF T!Linked

LEMMA FileStays ==
  ASSUME NEW cs, NEW ds, \A n \in DOMAIN cs : n \in DOMAIN ds /\ ds[n].dialect = cs[n].dialect,
         NEW f, T!IsFile(f, cs)
  PROVE  T!IsFile(f, ds)
BY LinkedStays DEF T!IsFile

LEMMA KeysStay ==
  ASSUME NEW cs, NEW ds, \A n \in DOMAIN cs : n \in DOMAIN ds /\ T!EndpointKey(ds[n]) = T!EndpointKey(cs[n])
  PROVE  T!Keys(T!Range(cs)) \subseteq T!Keys(T!Range(ds))
BY DEF T!Keys, T!Range

LEMMA RepeatsByKey ==
  ASSUME NEW c, NEW d, NEW e, T!EndpointKey(d) = T!EndpointKey(e)
  PROVE  T!Repeats(c, d) <=> T!Repeats(c, e)
<1>1. T!AnyUser(d) = T!AnyUser(e)
  BY DEF T!EndpointKey, T!AnyUser
<1> QED
  BY <1>1 DEF T!Repeats

LEMMA RepeatsOfKey ==
  ASSUME NEW c, NEW d, NEW e, T!EndpointKey(d) = T!EndpointKey(e), d.user = e.user
  PROVE  T!Repeats(d, c) <=> T!Repeats(e, c)
<1>1. T!AnyUser(d) = T!AnyUser(e)
  BY DEF T!EndpointKey, T!AnyUser
<1> QED
  BY <1>1 DEF T!Repeats

LEMMA AddedStays ==
  ASSUME NEW c, NEW i, NEW cs, NEW ds, T!Added(c, i, cs),
         \A n \in DOMAIN cs :
           /\ n \in DOMAIN ds /\ T!EndpointKey(ds[n]) = T!EndpointKey(cs[n])
           /\ ds[n].password = cs[n].password /\ ds[n].catalog = cs[n].catalog
  PROVE  T!Added(c, i, ds)
BY DEF T!Added

LEMMA InItsFolderStays ==
  ASSUME NEW c, NEW i, NEW cs, NEW ds, NEW gs, NEW hs, T!InItsFolder(c, i, cs, gs),
         ds[i.newIds[c.ref]].group = cs[i.newIds[c.ref]].group,
         \A n \in DOMAIN gs : n \in DOMAIN hs /\ hs[n] = gs[n]
  PROVE  T!InItsFolder(c, i, ds, hs)
BY DEF T!InItsFolder

(* With more that exists, no more is ready.                                *)
LEMMA MoreIsDouble ==
  ASSUME NEW fr, NEW f, NEW secrets, NEW X, NEW Y, T!Keys(X) \subseteq T!Keys(Y), NEW n \in DOMAIN f.entries,
         T!ParseConnectionImport(fr, f, Y, secrets)[n].status = "ready"
  PROVE  T!ParseConnectionImport(fr, f, X, secrets)[n].status = "ready"
<1> DEFINE r == T!AsCandidates(fr, f, secrets)
<1>1. /\ r[n].status = "ready"
      /\ \A d \in Y : ~T!Repeats(r[n], d)
      /\ \A j \in DOMAIN r : j < n /\ T!HasConfig(r[j]) => ~T!Repeats(r[n], r[j])
  BY ParseIs
<1>2. ASSUME NEW d \in X PROVE ~T!Repeats(r[n], d)
  <2>1. PICK e \in Y : T!EndpointKey(d) = T!EndpointKey(e)
    BY DEF T!Keys
  <2> QED
    BY <1>1, <2>1, RepeatsByKey
<1> HIDE DEF r
<1> QED
  BY <1>1, <1>2, ParseIs DEF r

LEMMA NoneIsReady ==
  ASSUME NEW fr, NEW f, NEW secrets, NEW X
  PROVE  T!Ready(T!ParseConnectionImport(fr, f, X, secrets)) = {} <=>
           \A n \in DOMAIN f.entries : T!ParseConnectionImport(fr, f, X, secrets)[n].status # "ready"
<1> DEFINE p == T!ParseConnectionImport(fr, f, X, secrets)
<1>1. DOMAIN p = DOMAIN f.entries
  BY ParseIs
<1> HIDE DEF p
<1>2. T!Ready(p) = {} <=> \A n \in DOMAIN p : p[n].status # "ready"
  BY DEF T!Ready, T!Range
<1> QED
  BY <1>1, <1>2 DEF p

LEMMA SecondStays ==
  ASSUME NEW i, NEW cs, NEW ds, T!AllThatIsNew(i, cs), T!Keys(T!Range(cs)) \subseteq T!Keys(T!Range(ds)),
         T!Ready(T!ParseConnectionImport(i.of.from, i.of.file, T!Range(cs), i.of.secrets)) = {}
  PROVE  /\ T!AllThatIsNew(i, ds)
         /\ T!Ready(T!ParseConnectionImport(i.of.from, i.of.file, T!Range(ds), i.of.secrets)) = {}
<1>1. T!AllThatIsNew(i, ds)
  BY DEF T!AllThatIsNew
<1>2. \A n \in DOMAIN i.of.file.entries :
        T!ParseConnectionImport(i.of.from, i.of.file, T!Range(ds), i.of.secrets)[n].status # "ready"
  BY NoneIsReady, MoreIsDouble
<1> QED
  BY <1>1, <1>2, NoneIsReady

-----------------------------------------------------------------------------
(* A step that changes no connection and no group, and starts no import,   *)
(* keeps what the lists and the candidates have no part in.                *)
LEMMA FrameImport ==
  ASSUME T!TransferInv, UNCHANGED <<saved, groups>>, import' \in {import, None}, finished' \in {finished, None},
         T!ListsAreSaved', T!CandidatesAreParsed'
  PROVE  T!TransferInv'
<1> USE DEF T!Exists
<1>1. T!ImportInOrder'
  BY DEF T!TransferInv, T!ImportInOrder
<1>2. T!GroupsAreKnown'
  BY DEF T!TransferInv, T!GroupsAreKnown, T!Current
<1>3. T!AddedSoFar'
  BY DEF T!TransferInv, T!AddedSoFar
<1>4. T!AllImported'
  BY DEF T!TransferInv, T!AllImported
<1>5. T!CatalogFirst'
  BY DEF T!TransferInv, T!CatalogFirst
<1>6. T!OneGroupPerFolder'
  BY DEF T!TransferInv, T!OneGroupPerFolder
<1>7. T!NoDoubleByDefault'
  BY DEF T!TransferInv, T!NoDoubleByDefault
<1>8. T!SecondImportIsNoOp'
  BY DEF T!TransferInv, T!SecondImportIsNoOp
<1> QED
  BY <1>1, <1>2, <1>3, <1>4, <1>5, <1>6, <1>7, <1>8 DEF T!TransferInv

LEMMA FrameDialog ==
  ASSUME T!TransferInv, UNCHANGED <<saved, groups, listed, listedGroups, import>>,
         finished' \in {finished, None}, T!CandidatesAreParsed'
  PROVE  T!TransferInv'
<1>1. T!ListsAreSaved'
  BY DEF T!TransferInv, T!ListsAreSaved
<1> QED
  BY <1>1, FrameImport

LEMMA TransferStutters ==
  ASSUME T!TransferInv, UNCHANGED T!transferVars
  PROVE  T!TransferInv'
<1>1. T!CandidatesAreParsed'
  BY DEF T!TransferInv, T!CandidatesAreParsed, T!transferVars, T!files, T!reads
<1> QED
  BY <1>1, FrameDialog DEF T!transferVars, T!lists

LEMMA ForgetKeeps ==
  ASSUME T!TransferInv, T!ForgetFiles
  PROVE  T!TransferInv'
<1>1. T!CandidatesAreParsed'
  BY DEF T!TransferInv, T!CandidatesAreParsed, T!ForgetFiles, T!reads, T!Exists
<1> QED
  BY <1>1, FrameDialog DEF T!ForgetFiles, T!lists

LEMMA ChooseKeeps ==
  ASSUME T!TransferInv, NEW f, T!Choose(f), T!IsFile(f, saved)
  PROVE  T!TransferInv'
<1>1. reading'.of = f
  BY DEF T!Choose, T!Render
<1>2. T!CandidatesAreParsed'
  BY <1>1 DEF T!TransferInv, T!CandidatesAreParsed, T!Choose, T!files, T!Exists
<1> QED
  BY <1>2, FrameDialog DEF T!Choose, T!lists

LEMMA ShowKeeps ==
  ASSUME T!TransferInv, NEW r, NEW f, NEW secrets, T!ShowCandidates(r, f, secrets),
         T!IsFile(f, saved), UNCHANGED saved
  PROVE  T!Exists(candidates') => candidates' = T!Parsed(basis') /\ T!IsFile(basis'.file, saved)
<1>1. CASE T!Acceptable(f, r.source)
  <2>1. /\ basis' = [from |-> r.source, file |-> f, listed |-> r.listed, secrets |-> secrets]
        /\ candidates' = T!ParseConnectionImport(r.source, f, r.listed, secrets)
    BY <1>1 DEF T!ShowCandidates
  <2>2. T!Parsed(basis') = T!ParseConnectionImport(r.source, f, r.listed, secrets) /\ basis'.file = f
    BY <2>1 DEF T!Parsed
  <2> QED
    BY <2>1, <2>2
<1>2. CASE ~T!Acceptable(f, r.source)
  BY <1>2 DEF T!ShowCandidates, T!TransferInv, T!CandidatesAreParsed
<1> QED
  BY <1>1, <1>2

LEMMA FileReadKeeps ==
  ASSUME T!TransferInv, T!FileRead
  PROVE  T!TransferInv'
<1>1. UNCHANGED saved /\ reading # None /\ reading' = None /\ T!IsFile(reading.of, saved)
  BY DEF T!FileRead, T!TransferInv, T!CandidatesAreParsed, T!Exists
<1>2. T!Exists(candidates') => candidates' = T!Parsed(basis') /\ T!IsFile(basis'.file, saved)
  <2>1. CASE T!ShowCandidates(reading, reading.of, credentials)
    BY <1>1, <2>1, ShowKeeps
  <2>2. CASE candidates' = None
    BY <2>2 DEF T!Exists
  <2> QED
    BY <2>1, <2>2 DEF T!FileRead
<1>3. text' \in {reading.of, text}
  BY DEF T!FileRead
<1>4. T!CandidatesAreParsed'
  BY <1>1, <1>2, <1>3 DEF T!TransferInv, T!CandidatesAreParsed, T!Exists
<1> QED
  BY <1>4, FrameDialog DEF T!FileRead, T!lists

LEMMA CredentialsReadKeeps ==
  ASSUME T!TransferInv, T!CredentialsRead
  PROVE  T!TransferInv'
<1>1. UNCHANGED <<saved, text, reading>>
  BY DEF T!CredentialsRead
<1>2. T!Exists(candidates') => candidates' = T!Parsed(basis') /\ T!IsFile(basis'.file, saved)
  <2>1. CASE T!Exists(text)
    BY <1>1, <2>1, ShowKeeps DEF T!CredentialsRead, T!TransferInv, T!CandidatesAreParsed
  <2>2. CASE ~T!Exists(text)
    BY <1>1, <2>2 DEF T!CredentialsRead, T!TransferInv, T!CandidatesAreParsed
  <2> QED
    BY <2>1, <2>2
<1>3. T!CandidatesAreParsed'
  BY <1>1, <1>2 DEF T!TransferInv, T!CandidatesAreParsed
<1> QED
  BY <1>3, FrameDialog DEF T!CredentialsRead, T!lists

LEMMA DialogKeeps ==
  ASSUME T!TransferInv,
         \/ \E k \in CredentialFiles : T!ChooseCredentials(k)
         \/ T!CredentialsUnreadable
         \/ \E c \in T!Range(candidates) : T!Toggle(c)
  PROVE  T!TransferInv'
<1>1. /\ UNCHANGED <<saved, groups, listed, listedGroups, import, reading, text, candidates, basis>>
      /\ finished' \in {finished, None}
  BY DEF T!ChooseCredentials, T!CredentialsUnreadable, T!Toggle, T!lists, T!files, T!reads
<1>2. T!CandidatesAreParsed'
  BY <1>1 DEF T!TransferInv, T!CandidatesAreParsed
<1> QED
  BY <1>1, <1>2, FrameDialog

LEMMA LoadKeeps ==
  ASSUME T!TransferInv, T!LoadGroups \/ T!LoadConnections
  PROVE  T!TransferInv'
<1>1. UNCHANGED <<saved, groups, import, finished, reading, text, candidates, basis>>
  BY DEF T!LoadGroups, T!LoadConnections, T!files, T!reads
<1>2. \/ UNCHANGED listed /\ listedGroups' \in {groups, listedGroups}
      \/ UNCHANGED listedGroups /\ listed' \in {saved, <<>>}
  BY DEF T!LoadGroups, T!LoadConnections
<1>3. T!ListsAreSaved'
  <2>1. <<>> \in Seq(T!Range(<<>>)) /\ DOMAIN <<>> = {}
    OBVIOUS
  <2> QED
    BY <1>1, <1>2, <2>1 DEF T!TransferInv, T!ListsAreSaved
<1>4. T!CandidatesAreParsed'
  BY <1>1 DEF T!TransferInv, T!CandidatesAreParsed
<1> QED
  BY <1>1, <1>3, <1>4, FrameImport

LEMMA ImportFailsKeeps ==
  ASSUME T!TransferInv, T!ImportFails
  PROVE  T!TransferInv'
<1>1. /\ UNCHANGED <<saved, groups, listed, listedGroups, finished, reading, text, candidates, basis>>
      /\ import' = None
  BY DEF T!ImportFails, T!files, T!reads
<1>2. T!ListsAreSaved' /\ T!CandidatesAreParsed'
  BY <1>1 DEF T!TransferInv, T!ListsAreSaved, T!CandidatesAreParsed
<1> QED
  BY <1>1, <1>2, FrameImport
LEMMA ChooseBackupKeeps ==
  ASSUME T!TransferInv, T!ChooseBackup
  PROVE  T!TransferInv'
<1> DEFINE places == {n \in DOMAIN listed : T!Importable(listed[n])}
           cs == T!InOrder(listed, places)
           f == T!BuildConnectionExport(cs)
<1>1. /\ listed \in Seq(T!Range(listed)) /\ DOMAIN listed = 1 .. Len(listed) /\ Len(listed) \in Nat
      /\ \A n \in DOMAIN listed :
           n \in DOMAIN saved /\ listed[n].id = n /\ listed[n].dialect = saved[n].dialect
           /\ listed[n].catalog = saved[n].catalog
      /\ \A n \in DOMAIN saved : T!Linked(saved[n], saved)
  BY SeqIs DEF T!TransferInv, T!ListsAreSaved
<1>2. places \in SUBSET DOMAIN listed
  OBVIOUS
<1> HIDE DEF places
<1>3. /\ Cardinality(places) \in Nat /\ cs \in Seq(T!Range(listed)) /\ Len(cs) = Cardinality(places)
      /\ \A k \in DOMAIN cs : cs[k] = listed[T!Nth(places, k)] /\ T!Nth(places, k) \in DOMAIN listed
      /\ \A j, k \in DOMAIN cs : j < k => T!Nth(places, j) < T!Nth(places, k)
  <2>1. /\ Cardinality(places) \in Nat /\ cs \in Seq(T!Range(listed)) /\ Len(cs) = Cardinality(places)
        /\ \A k \in 1 .. Cardinality(places) : cs[k] = listed[T!Nth(places, k)] /\ T!Nth(places, k) \in places
        /\ \A j, k \in 1 .. Cardinality(places) : j < k => T!Nth(places, j) < T!Nth(places, k)
    BY <1>1, <1>2, InOrderIs
  <2>2. DOMAIN cs = 1 .. Cardinality(places)
    BY <2>1
  <2> QED
    BY <1>2, <2>1, <2>2
<1> HIDE DEF cs
<1>4. f.entries = [k \in DOMAIN cs |-> T!Exported(cs[k])]
  BY DEF T!BuildConnectionExport
<1> HIDE DEF f
<1>5. ASSUME NEW k \in DOMAIN cs
      PROVE  LET m == T!Nth(places, k)
             IN /\ m \in DOMAIN listed /\ m \in Nat
                /\ f.entries[k].ref = m /\ f.entries[k].dialect = saved[m].dialect
                /\ f.entries[k].catalog = saved[m].catalog /\ T!Linked(saved[m], saved)
  <2>1. f.entries[k].ref = cs[k].id /\ f.entries[k].dialect = cs[k].dialect /\ f.entries[k].catalog = cs[k].catalog
    BY <1>4 DEF T!Exported
  <2> QED
    BY <1>1, <1>3, <2>1
<1>6. \A j, k \in DOMAIN cs : T!Nth(places, j) = T!Nth(places, k) => j = k
  <2> SUFFICES ASSUME NEW j \in DOMAIN cs, NEW k \in DOMAIN cs, T!Nth(places, j) = T!Nth(places, k) PROVE j = k
    OBVIOUS
  <2>1. j \in Nat /\ k \in Nat /\ T!Nth(places, j) \in Nat
    BY <1>1, <1>3
  <2>2. ~(j < k) /\ ~(k < j)
    BY <1>3, <2>1
  <2> QED
    BY <2>1, <2>2
<1>7. f.entries \in Seq(T!Range(f.entries)) /\ DOMAIN f.entries = DOMAIN cs
  <2>1. Len(cs) \in Nat /\ DOMAIN cs = 1 .. Len(cs)
    BY <1>3
  <2>2. f.entries = [k \in 1 .. Len(cs) |-> f.entries[k]] /\ DOMAIN f.entries = 1 .. Len(cs)
    BY <1>4, <2>1
  <2>3. \A k \in 1 .. Len(cs) : f.entries[k] \in T!Range(f.entries)
    BY <2>2 DEF T!Range
  <2> QED
    BY <2>1, <2>2, <2>3
<1>8. T!IsFile(f, saved)
  <2>1. ASSUME NEW m \in DOMAIN cs, NEW n \in DOMAIN cs, f.entries[m].ref = f.entries[n].ref PROVE m = n
    BY <1>5, <1>6, <2>1
  <2>2. ASSUME NEW m \in DOMAIN cs, NEW n \in DOMAIN cs, f.entries[m].catalog = f.entries[n].ref
        PROVE  f.entries[n].dialect # "s3"
    BY <1>5, <2>2 DEF T!Linked
  <2>3. ASSUME NEW n \in DOMAIN cs PROVE f.entries[n].ref \in Nat \cup Refs /\ T!Linked(f.entries[n], saved)
    BY <1>5 DEF T!Linked
  <2> QED
    BY <1>7, <2>1, <2>2, <2>3 DEF T!IsFile
<1>9. T!Choose(f)
  BY DEF T!ChooseBackup, f, cs, places
<1> QED
  BY <1>8, <1>9, ChooseKeeps

LEMMA TheirsAreFiles ==
  ASSUME NEW f \in Theirs
  PROVE  T!IsFile(f, saved)
<1>1. /\ f.entries \in Seq(T!Range(f.entries))
      /\ \A m, n \in DOMAIN f.entries :
           /\ f.entries[m].ref = f.entries[n].ref => m = n
           /\ f.entries[m].catalog = f.entries[n].ref => f.entries[n].dialect # "s3"
      /\ \A n \in DOMAIN f.entries :
           /\ f.entries[n].ref \in Refs /\ f.entries[n].catalog \in Refs \cup {None}
           /\ f.entries[n].catalog # None => f.entries[n].dialect = "s3"
  BY TransferAssumption DEF T!TransferAssumption
<1>2. None \notin Nat \cup Refs /\ Refs \cap Nat = {}
  BY TransferAssumption DEF T!TransferAssumption
<1>3. \A n \in DOMAIN f.entries : T!Linked(f.entries[n], saved)
  BY <1>1, <1>2 DEF T!Linked
<1> QED
  BY <1>1, <1>3 DEF T!IsFile

LEMMA InitHolds == T!TransferInit => T!TransferInv
<1> SUFFICES ASSUME T!TransferInit PROVE T!TransferInv
  OBVIOUS
<1>1. /\ reading = None /\ text = None /\ candidates = None /\ import = None /\ finished = None
      /\ saved \in Own /\ groups = OwnGroups /\ listed = saved /\ listedGroups = groups
  BY DEF T!TransferInit
<1>2. None \notin Nat \cup Refs /\ Refs \cap Nat = {} /\ OwnGroups \in Seq(T!Range(OwnGroups))
  BY TransferAssumption DEF T!TransferAssumption
<1>3. /\ saved \in Seq(T!Range(saved))
      /\ \A n \in DOMAIN saved :
           /\ saved[n].id = n
           /\ saved[n].catalog # None =>
                saved[n].dialect = "s3" /\ saved[n].catalog \in DOMAIN saved
                /\ saved[saved[n].catalog].dialect # "s3"
  BY <1>1, TransferAssumption DEF T!TransferAssumption
<1>4. DOMAIN saved \subseteq Nat
  BY <1>3
<1>5. T!ListsAreSaved
  <2>1. \A n \in DOMAIN saved : T!Linked(saved[n], saved)
    BY <1>2, <1>3, <1>4 DEF T!Linked
  <2> QED
    BY <1>1, <1>2, <1>3, <2>1 DEF T!ListsAreSaved
<1>6. T!CandidatesAreParsed
  BY <1>1 DEF T!CandidatesAreParsed, T!Exists
<1>7. /\ T!ImportInOrder /\ T!GroupsAreKnown /\ T!AddedSoFar
      /\ T!AllImported /\ T!CatalogFirst /\ T!OneGroupPerFolder /\ T!NoDoubleByDefault /\ T!SecondImportIsNoOp
  BY <1>1 DEF T!ImportInOrder, T!GroupsAreKnown, T!AddedSoFar, T!AllImported, T!CatalogFirst, T!OneGroupPerFolder,
              T!NoDoubleByDefault, T!SecondImportIsNoOp, T!Exists
<1> QED
  BY <1>5, <1>6, <1>7 DEF T!TransferInv

-----------------------------------------------------------------------------
(* runImport begins. *)
LEMMA NamesIs ==
  ASSUME NEW gs, gs \in Seq(T!Range(gs))
  PROVE  /\ DOMAIN T!Names(gs) = {Lower[gs[i]] : i \in DOMAIN gs}
         /\ \A n \in DOMAIN T!Names(gs) : T!Names(gs)[n] \in DOMAIN gs /\ Lower[gs[T!Names(gs)[n]]] = n
<1>1. DOMAIN T!Names(gs) = {Lower[gs[i]] : i \in DOMAIN gs}
  BY DEF T!Names
<1>2. ASSUME NEW n \in DOMAIN T!Names(gs)
      PROVE  T!Names(gs)[n] \in DOMAIN gs /\ Lower[gs[T!Names(gs)[n]]] = n
  <2> DEFINE places == {i \in DOMAIN gs : Lower[gs[i]] = n}
             m == T!Nth(places, Cardinality(places))
  <2>1. Len(gs) \in Nat /\ DOMAIN gs = 1 .. Len(gs) /\ IsFiniteSet(1 .. Len(gs))
    BY SeqIs, FS_Interval
  <2>2. places \in SUBSET (1 .. Len(gs)) /\ places \in SUBSET Nat
    BY <2>1
  <2>3. IsFiniteSet(places)
    BY <2>1, <2>2, FS_Subset
  <2>4. PICK i \in places : TRUE
    BY <1>1
  <2> HIDE DEF places
  <2>5. /\ Cardinality(places) \in Nat
        /\ \A k \in 1 .. Cardinality(places) : T!Nth(places, k) \in places
        /\ \A x \in places : \E k \in 1 .. Cardinality(places) : T!Nth(places, k) = x
        /\ \A j, k \in 1 .. Cardinality(places) : j < k => T!Nth(places, j) < T!Nth(places, k)
    BY <2>2, <2>3, NthIs
  <2>6. Cardinality(places) \in 1 .. Cardinality(places)
    BY <2>4, <2>5
  <2>7. m \in places
    BY <2>5, <2>6
  <2>8. ASSUME NEW j \in places PROVE j <= m
    <3>1. PICK k \in 1 .. Cardinality(places) : T!Nth(places, k) = j
      BY <2>5
    <3>2. k = Cardinality(places) \/ k < Cardinality(places)
      BY <2>5
    <3>3. j = m \/ j < m
      BY <2>5, <2>6, <3>1, <3>2
    <3>4. m \in Nat /\ j \in Nat
      BY <2>2, <2>7
    <3> QED
      BY <3>3, <3>4
  <2> HIDE DEF m
  <2>9. \E x \in DOMAIN gs : Lower[gs[x]] = n /\ \A j \in DOMAIN gs : Lower[gs[j]] = n => j <= x
    BY <2>7, <2>8 DEF places
  <2>10. T!Names(gs)[n] = CHOOSE x \in DOMAIN gs : Lower[gs[x]] = n /\ \A j \in DOMAIN gs : Lower[gs[j]] = n => j <= x
    BY <1>1 DEF T!Names
  <2> QED
    BY <2>9, <2>10
<1> QED
  BY <1>1, <1>2

LEMMA RunImportIs ==
  ASSUME T!TransferInv, T!RunImport
  PROVE  /\ import' = [at |-> "add", left |-> T!Chosen(candidates, selected), newIds |-> <<>>,
                       groupIds |-> T!Names(listedGroups), count |-> 0,
                       chosen |-> T!Range(T!Chosen(candidates, selected)), known |-> listedGroups,
                       from |-> Len(groups), byDefault |-> T!ByDefault, of |-> basis]
         /\ UNCHANGED <<saved, groups, listed, listedGroups, finished, reading, text, candidates, basis>>
         /\ candidates = T!Parsed(basis) /\ T!IsFile(basis.file, saved)
         /\ candidates \in Seq(T!Range(candidates)) /\ DOMAIN candidates = DOMAIN basis.file.entries
         /\ \A j, k \in DOMAIN candidates : candidates[j].ref = candidates[k].ref => j = k
<1>1. candidates = T!Parsed(basis) /\ T!IsFile(basis.file, saved)
  BY DEF T!RunImport, T!TransferInv, T!CandidatesAreParsed
<1>2. candidates = T!ParseConnectionImport(basis.from, basis.file, basis.listed, basis.secrets)
  BY <1>1 DEF T!Parsed
<1>3. basis.file.entries \in Seq(T!Range(basis.file.entries))
  BY <1>1 DEF T!IsFile
<1>4. candidates \in Seq(T!Range(candidates)) /\ DOMAIN candidates = DOMAIN basis.file.entries
  BY <1>2, <1>3, ParsedIsSeq, ParseIs
<1>5. \A n \in DOMAIN candidates : candidates[n].ref = basis.file.entries[n].ref
  BY <1>2, <1>4, ParseIs
<1>6. \A j, k \in DOMAIN candidates : candidates[j].ref = candidates[k].ref => j = k
  BY <1>1, <1>4, <1>5 DEF T!IsFile
<1> QED
  BY <1>1, <1>4, <1>6 DEF T!RunImport, T!lists, T!files, T!reads

LEMMA RunImportInOrder ==
  ASSUME T!TransferInv, T!RunImport
  PROVE  T!ImportInOrder'
<1> DEFINE P == candidates
           C == T!Chosen(candidates, selected)
<1>1. /\ P \in Seq(T!Range(P)) /\ \A j, k \in DOMAIN P : P[j].ref = P[k].ref => j = k
      /\ DOMAIN P \subseteq Nat
  BY RunImportIs, SeqIs
<1>2. PICK from : ChosenFrom(P, selected, from)
  BY <1>1, ChosenIs
<1>3. /\ C \in Seq(T!Range(C)) /\ from \in [DOMAIN C -> T!Checked(P, selected)]
      /\ \A k \in DOMAIN C : C[k] = P[from[k]]
      /\ \A j, k \in DOMAIN C : j < k =>
           \/ from[j] < from[k] /\ (P[from[j]].dialect = "s3" <=> P[from[k]].dialect = "s3")
           \/ P[from[j]].dialect # "s3" /\ P[from[k]].dialect = "s3"
  BY <1>2 DEF ChosenFrom
<1> HIDE DEF C
<1>4. DOMAIN C \subseteq Nat /\ \A k \in DOMAIN C : from[k] \in DOMAIN P /\ T!HasConfig(P[from[k]])
  BY <1>3 DEF T!Checked
<1>5. /\ import'.left = C /\ import'.chosen = T!Range(C) /\ import'.newIds = <<>> /\ import'.at = "add"
      /\ import'.of = basis
  BY RunImportIs DEF C
<1>6. ASSUME NEW j \in DOMAIN C, NEW k \in DOMAIN C
      PROVE  /\ C[j].ref = C[k].ref => j = k
             /\ j < k /\ C[j].dialect = "s3" => C[k].dialect = "s3"
  <2>1. j \in Nat /\ k \in Nat /\ from[j] \in Nat /\ from[k] \in Nat
    BY <1>1, <1>4
  <2>2. C[j] = P[from[j]] /\ C[k] = P[from[k]]
    BY <1>3, <1>4
  <2>3. C[j].ref = C[k].ref => from[j] = from[k]
    BY <1>1, <1>4, <2>2
  <2>4. ~(j < k /\ from[j] = from[k]) /\ ~(k < j /\ from[j] = from[k])
    BY <1>3, <1>4, <2>1
  <2>5. C[j].ref = C[k].ref => j = k
    BY <2>1, <2>3, <2>4
  <2>6. j < k /\ C[j].dialect = "s3" => C[k].dialect = "s3"
    BY <1>3, <1>4, <2>2
  <2> QED
    BY <2>5, <2>6
<1>7. T!Pending(import') = DOMAIN C
  BY <1>5 DEF T!Pending
<1>8. DOMAIN import'.newIds = {c.ref : c \in import'.chosen} \ {import'.left[k].ref : k \in T!Pending(import')}
  <2>1. DOMAIN import'.newIds = {}
    BY <1>5
  <2>2. {c.ref : c \in T!Range(C)} = {C[k].ref : k \in DOMAIN C}
    BY DEF T!Range
  <2> QED
    BY ZenonT(60), <1>5, <1>7, <2>1, <2>2
<1>9. T!InTurn(import')
  BY <1>3, <1>5, <1>6, <1>8 DEF T!InTurn
<1>10. import'.chosen \subseteq {c \in T!Range(T!Parsed(basis)) : T!HasConfig(c)}
  BY <1>3, <1>4, <1>5, RunImportIs DEF T!Range
<1> QED
  BY <1>5, <1>9, <1>10, RunImportIs DEF T!ImportInOrder

LEMMA RunImportNoDouble ==
  ASSUME T!TransferInv, T!RunImport
  PROVE  T!NoDoubleByDefault'
<1> SUFFICES ASSUME T!ByDefault PROVE T!NoDoubleByDefault'
  <2>1. ~T!ByDefault => ~import'.byDefault
    BY RunImportIs
  <2> QED
    BY <2>1 DEF T!NoDoubleByDefault
<1> DEFINE P == candidates
           C == T!Chosen(candidates, selected)
           f == basis.file
           r == T!AsCandidates(basis.from, f, basis.secrets)
<1>1. /\ P \in Seq(T!Range(P)) /\ \A j, k \in DOMAIN P : P[j].ref = P[k].ref => j = k
      /\ DOMAIN P \subseteq Nat /\ DOMAIN P = DOMAIN f.entries /\ P = T!Parsed(basis)
      /\ P = T!ParseConnectionImport(basis.from, f, basis.listed, basis.secrets)
  BY RunImportIs, SeqIs DEF T!Parsed
<1>2. PICK from : ChosenFrom(P, selected, from)
  BY <1>1, ChosenIs
<1>3. /\ C \in Seq(T!Range(C)) /\ from \in [DOMAIN C -> T!Checked(P, selected)]
      /\ \A k \in DOMAIN C : C[k] = P[from[k]]
      /\ \A i \in T!Checked(P, selected) : \E k \in DOMAIN C : from[k] = i
      /\ \A j, k \in DOMAIN C : j < k =>
           \/ from[j] < from[k] /\ (P[from[j]].dialect = "s3" <=> P[from[k]].dialect = "s3")
           \/ P[from[j]].dialect # "s3" /\ P[from[k]].dialect = "s3"
  BY <1>2 DEF ChosenFrom
<1> HIDE DEF C
<1>4. /\ import'.left = C /\ import'.chosen = T!Range(C) /\ import'.at = "add"
      /\ import'.of = basis /\ saved' = saved
  BY RunImportIs DEF C
<1>5. selected = T!Ready(P) /\ T!Keys(basis.listed) = T!Keys(T!Range(saved))
  BY DEF T!ByDefault
<1>6. DOMAIN C \subseteq Nat /\ \A k \in DOMAIN C : from[k] \in DOMAIN P /\ T!HasConfig(P[from[k]])
  BY <1>3 DEF T!Checked
<1>7. \A i \in DOMAIN P : i \in T!Checked(P, selected) <=> P[i].status = "ready"
  <2> SUFFICES ASSUME NEW i \in DOMAIN P PROVE i \in T!Checked(P, selected) <=> P[i].status = "ready"
    OBVIOUS
  <2>1. P[i].ref \in T!Ready(P) <=> \E j \in DOMAIN P : P[j].status = "ready" /\ P[j].ref = P[i].ref
    BY DEF T!Ready, T!Range
  <2>2. P[i].ref \in T!Ready(P) <=> P[i].status = "ready"
    BY <1>1, <2>1
  <2>3. P[i].status = "ready" => T!HasConfig(P[i])
    BY DEF T!HasConfig
  <2> QED
    BY <1>5, <2>2, <2>3 DEF T!Checked
<1>8. T!AllThatIsNew(import', saved)
  <2>1. \A c : c \in T!Range(C) <=> \E i \in T!Checked(P, selected) : c = P[i]
    BY <1>3, <1>6 DEF T!Range
  <2>2. \A c : c \in T!Range(C) <=> c \in T!Range(P) /\ c.status = "ready"
    BY <1>7, <2>1 DEF T!Checked, T!Range
  <2>3. T!Range(C) = {c \in T!Range(P) : c.status = "ready"}
    BY <2>2
  <2> QED
    BY <1>1, <1>4, <1>5, <2>3 DEF T!AllThatIsNew
<1> HIDE DEF r
<1>9. \A i \in DOMAIN P :
        /\ T!EndpointKey(P[i]) = T!EndpointKey(r[i]) /\ P[i].user = r[i].user
        /\ T!HasConfig(P[i]) <=> T!HasConfig(r[i])
        /\ P[i].status = "ready" =>
             /\ \A d \in basis.listed : ~T!Repeats(r[i], d)
             /\ \A j \in DOMAIN P : j < i /\ T!HasConfig(r[j]) => ~T!Repeats(r[i], r[j])
  BY <1>1, ParseIs DEF r
<1>10. ASSUME NEW k \in DOMAIN C, NEW d \in T!Range(saved) PROVE ~T!Repeats(C[k], d)
  <2>1. PICK e \in basis.listed : T!EndpointKey(d) = T!EndpointKey(e)
    <3>1. T!EndpointKey(d) \in T!Keys(basis.listed)
      BY <1>5 DEF T!Keys
    <3> QED
      BY <3>1 DEF T!Keys
  <2>2. from[k] \in DOMAIN P /\ P[from[k]].status = "ready" /\ C[k] = P[from[k]]
    BY <1>3, <1>6, <1>7
  <2>3. ~T!Repeats(r[from[k]], e)
    BY <1>9, <2>2
  <2>4. ~T!Repeats(r[from[k]], d)
    BY <2>1, <2>3, RepeatsByKey
  <2> QED
    BY <1>9, <2>2, <2>4, RepeatsOfKey
<1>11. ASSUME NEW k \in DOMAIN C, NEW j \in DOMAIN C, j < k PROVE ~T!Repeats(C[k], C[j])
  <2>1. /\ from[k] \in DOMAIN P /\ P[from[k]].status = "ready" /\ C[k] = P[from[k]]
        /\ from[j] \in DOMAIN P /\ C[j] = P[from[j]] /\ T!HasConfig(P[from[j]])
    BY <1>3, <1>6, <1>7
  <2>2. CASE from[j] < from[k]
    <3>1. ~T!Repeats(r[from[k]], r[from[j]])
      BY <1>9, <2>1, <2>2
    <3>2. ~T!Repeats(P[from[k]], r[from[j]])
      BY <1>9, <2>1, <3>1, RepeatsOfKey
    <3>3. ~T!Repeats(P[from[k]], P[from[j]])
      BY <1>9, <2>1, <3>2, RepeatsByKey
    <3> QED
      BY <2>1, <3>3
  <2>3. CASE C[j].dialect # C[k].dialect
    BY <2>3 DEF T!Repeats, T!EndpointKey, T!AnyUser
  <2> QED
    BY <1>3, <1>6, <1>11, <2>1, <2>2, <2>3
<1>12. T!Pending(import') = DOMAIN C
  BY <1>4 DEF T!Pending
<1> QED
  BY <1>4, <1>8, <1>10, <1>11, <1>12 DEF T!NoDoubleByDefault

LEMMA RunImportKeeps ==
  ASSUME T!TransferInv, T!RunImport
  PROVE  T!TransferInv'
<1>1. /\ UNCHANGED <<saved, groups, listed, listedGroups, finished, reading, text, candidates, basis>>
      /\ import'.left = T!Chosen(candidates, selected) /\ import'.chosen = T!Range(T!Chosen(candidates, selected))
      /\ import'.newIds = <<>> /\ import'.at = "add" /\ import'.groupIds = T!Names(listedGroups)
      /\ import'.known = listedGroups /\ import'.from = Len(groups)
  BY RunImportIs
<1>2. T!ListsAreSaved' /\ T!CandidatesAreParsed'
  BY <1>1 DEF T!TransferInv, T!ListsAreSaved, T!CandidatesAreParsed
<1>3. /\ groups \in Seq(T!Range(groups)) /\ Len(groups) \in Nat /\ DOMAIN groups = 1 .. Len(groups)
      /\ listedGroups \in Seq(T!Range(listedGroups)) /\ DOMAIN listedGroups \subseteq DOMAIN groups
      /\ \A i \in DOMAIN listedGroups : listedGroups[i] = groups[i]
  BY SeqIs DEF T!TransferInv, T!ListsAreSaved
<1>4. T!GroupsAreKnown'
  <2>1. \A i \in DOMAIN groups : ~(i > Len(groups))
    BY <1>3
  <2>2. \A name \in DOMAIN T!Names(listedGroups) :
          T!Names(listedGroups)[name] \in DOMAIN groups /\ Lower[groups[T!Names(listedGroups)[name]]] = name
    BY <1>3, NamesIs
  <2>3. \A i \in DOMAIN listedGroups : Lower[groups[i]] \in DOMAIN T!Names(listedGroups)
    <3>1. DOMAIN T!Names(listedGroups) = {Lower[listedGroups[i]] : i \in DOMAIN listedGroups}
      BY <1>3, NamesIs
    <3> QED
      BY <1>3, <3>1
  <2> QED
    BY <1>1, <1>3, <2>1, <2>2, <2>3 DEF T!GroupsAreKnown
<1>5. T!AddedSoFar'
  <2>1. DOMAIN import'.newIds = {}
    BY <1>1
  <2> QED
    BY <1>1, <2>1 DEF T!AddedSoFar
<1>6. T!CatalogFirst'
  <2>1. DOMAIN import'.newIds = {}
    BY <1>1
  <2> QED
    BY <2>1 DEF T!CatalogFirst
<1>7. T!OneGroupPerFolder'
  BY <1>1, <1>3 DEF T!OneGroupPerFolder
<1>8. T!AllImported' /\ T!SecondImportIsNoOp'
  BY <1>1 DEF T!TransferInv, T!AllImported, T!SecondImportIsNoOp
<1> QED
  BY <1>2, <1>4, <1>5, <1>6, <1>7, <1>8, RunImportInOrder, RunImportNoDouble DEF T!TransferInv
-----------------------------------------------------------------------------
(* The import goes on.                                                     *)
LEMMA WithIs ==
  ASSUME NEW map, NEW key, NEW value
  PROVE  /\ DOMAIN T!With(map, key, value) = DOMAIN map \cup {key}
         /\ T!With(map, key, value)[key] = value
         /\ \A k \in DOMAIN map : k # key => T!With(map, key, value)[k] = map[k]
BY DEF T!With

LEMMA TailIs ==
  ASSUME NEW S, NEW s \in Seq(S), s # <<>>
  PROVE  /\ Len(s) \in Nat /\ DOMAIN s = 1 .. Len(s) /\ 1 \in DOMAIN s /\ Head(s) = s[1] /\ s[1] \in S
         /\ Tail(s) \in Seq(S) /\ DOMAIN Tail(s) = 1 .. Len(s) - 1
         /\ \A k \in DOMAIN Tail(s) : Tail(s)[k] = s[k + 1] /\ k + 1 \in DOMAIN s
         /\ \A k \in DOMAIN s : k > 1 => k - 1 \in DOMAIN Tail(s) /\ Tail(s)[k - 1] = s[k]
<1>1. Len(s) \in Nat /\ DOMAIN s = 1 .. Len(s) /\ Len(s) # 0
  OBVIOUS
<1>2. Head(s) = s[1] /\ Tail(s) \in Seq(S) /\ Len(Tail(s)) = Len(s) - 1
  OBVIOUS
<1>3. DOMAIN Tail(s) = 1 .. Len(s) - 1
  BY <1>2
<1>4. \A k \in 1 .. Len(s) - 1 : Tail(s)[k] = s[k + 1]
  OBVIOUS
<1>5. 1 \in DOMAIN s /\ s[1] \in S
  BY <1>1
<1>6. \A k \in 1 .. Len(s) - 1 : k + 1 \in 1 .. Len(s)
  BY <1>1
<1>7. \A k \in 1 .. Len(s) : k > 1 => k - 1 \in 1 .. Len(s) - 1 /\ (k - 1) + 1 = k
  BY <1>1
<1> QED
  BY <1>1, <1>2, <1>3, <1>4, <1>5, <1>6, <1>7

(* A candidate is known by its reference; a catalog is never S3.           *)
LEMMA ChosenAre ==
  ASSUME T!TransferInv, T!Exists(import), NEW c \in import.chosen, NEW e \in import.chosen
  PROVE  /\ c.ref = e.ref => c = e
         /\ c.catalog = e.ref => c.dialect = "s3" /\ e.dialect # "s3" /\ c.catalog # None
         /\ T!Linked(c, saved)
<1> DEFINE f == import.of.file
           P == T!Parsed(import.of)
<1>1. T!IsFile(f, saved) /\ c \in T!Range(P) /\ e \in T!Range(P)
  BY DEF T!TransferInv, T!ImportInOrder
<1>2. PICK m \in DOMAIN P : c = P[m]
  BY <1>1 DEF T!Range
<1>3. PICK n \in DOMAIN P : e = P[n]
  BY <1>1 DEF T!Range
<1>4. /\ DOMAIN P = DOMAIN f.entries
      /\ \A k \in DOMAIN P : /\ P[k].ref = f.entries[k].ref /\ P[k].catalog = f.entries[k].catalog
                             /\ P[k].dialect = f.entries[k].dialect
  BY ParseIs DEF T!Parsed
<1> HIDE DEF f, P
<1>5. c.ref = e.ref => c = e
  BY <1>1, <1>2, <1>3, <1>4 DEF T!IsFile
<1>6. T!Linked(c, saved)
  BY <1>1, <1>2, <1>4 DEF T!IsFile, T!Linked
<1>7. e.ref \in Nat \cup Refs /\ None \notin Nat \cup Refs
  BY <1>1, <1>3, <1>4, TransferAssumption DEF T!IsFile, T!TransferAssumption
<1>8. c.catalog = e.ref => e.dialect # "s3"
  BY <1>1, <1>2, <1>3, <1>4 DEF T!IsFile
<1> QED
  BY <1>5, <1>6, <1>7, <1>8 DEF T!Linked

(* What the import is at.                                                  *)
LEMMA AtIs ==
  ASSUME T!TransferInv, NEW p, T!At(p)
  PROVE  /\ T!Exists(import) /\ T!InTurn(import) /\ import.at = p /\ import.left \in Seq(import.chosen)
         /\ Len(import.left) \in Nat /\ DOMAIN import.left = 1 .. Len(import.left)
         /\ 1 \in DOMAIN import.left /\ T!Current = import.left[1] /\ T!Current \in import.chosen
         /\ Tail(import.left) \in Seq(import.chosen) /\ DOMAIN Tail(import.left) = 1 .. Len(import.left) - 1
         /\ \A k \in DOMAIN Tail(import.left) :
              Tail(import.left)[k] = import.left[k + 1] /\ k + 1 \in DOMAIN import.left
         /\ \A k \in DOMAIN import.left :
              k > 1 => k - 1 \in DOMAIN Tail(import.left) /\ Tail(import.left)[k - 1] = import.left[k]
<1>1. T!Exists(import) /\ T!InTurn(import) /\ import.at = p /\ import.left # <<>>
  BY DEF T!At, T!TransferInv, T!ImportInOrder
<1>2. import.left \in Seq(import.chosen)
  BY <1>1 DEF T!InTurn
<1> QED
  BY <1>1, <1>2, TailIs DEF T!Current

(* The turn of the next candidate.                                         *)
LEMMA OnwardInTurn ==
  ASSUME T!TransferInv, NEW p, T!At(p), NEW ids,
         DOMAIN ids = {c.ref : c \in import.chosen} \ {import.left[k].ref : k \in DOMAIN import.left \ {1}}
  PROVE  T!InTurn(T!Onward(ids))
<1> DEFINE i == T!Onward(ids)
           t == Tail(import.left)
<1>1. i.at = "add" /\ i.left = t /\ i.newIds = ids /\ i.chosen = import.chosen
  BY DEF T!Onward, T!Going
<1> HIDE DEF i
<1>2. \A j, k \in DOMAIN import.left :
        /\ import.left[j].ref = import.left[k].ref => j = k
        /\ j < k /\ import.left[j].dialect = "s3" => import.left[k].dialect = "s3"
  BY AtIs DEF T!InTurn
<1>3. ASSUME NEW j \in DOMAIN t, NEW k \in DOMAIN t
      PROVE  /\ t[j].ref = t[k].ref => j = k
             /\ j < k /\ t[j].dialect = "s3" => t[k].dialect = "s3"
  <2>1. /\ t[j] = import.left[j + 1] /\ j + 1 \in DOMAIN import.left
        /\ t[k] = import.left[k + 1] /\ k + 1 \in DOMAIN import.left
    BY AtIs
  <2>2. j \in Nat /\ k \in Nat
    BY AtIs
  <2>3. (j + 1 = k + 1 <=> j = k) /\ (j + 1 < k + 1 <=> j < k)
    BY <2>2
  <2> QED
    BY <1>2, <2>1, <2>3
<1>4. {t[k].ref : k \in DOMAIN t} = {import.left[k].ref : k \in DOMAIN import.left \ {1}}
  <2>1. ASSUME NEW k \in DOMAIN t PROVE t[k].ref \in {import.left[m].ref : m \in DOMAIN import.left \ {1}}
    <3>1. t[k] = import.left[k + 1] /\ k + 1 \in DOMAIN import.left /\ k \in 1 .. Len(import.left) - 1
      BY AtIs
    <3>2. Len(import.left) \in Nat
      BY AtIs
    <3>3. k + 1 # 1
      BY <3>1, <3>2
    <3> QED
      BY <3>1, <3>3
  <2>2. ASSUME NEW k \in DOMAIN import.left \ {1} PROVE import.left[k].ref \in {t[m].ref : m \in DOMAIN t}
    <3>1. k \in 1 .. Len(import.left) /\ Len(import.left) \in Nat /\ k # 1
      BY AtIs
    <3>2. k > 1
      BY <3>1
    <3> QED
      BY <3>2, AtIs
  <2> QED
    BY <2>1, <2>2
<1>5. T!Pending(i) = DOMAIN t
  BY <1>1 DEF T!Pending
<1>6. DOMAIN i.newIds = {c.ref : c \in i.chosen} \ {i.left[k].ref : k \in T!Pending(i)}
  BY <1>1, <1>4, <1>5
<1>7. t \in Seq(import.chosen)
  BY AtIs
<1> HIDE DEF t
<1>8. T!InTurn(i)
  BY <1>1, <1>3, <1>6, <1>7 DEF T!InTurn
<1> QED
  BY <1>8 DEF i

-----------------------------------------------------------------------------
(* connection.add. *)
LEMMA AddIs ==
  ASSUME T!TransferInv, T!AddConnection
  PROVE  LET id == Len(saved) + 1
             ids == T!With(import.newIds, T!Current.ref, id)
             d == saved'[id]
         IN /\ T!At("add")
            /\ saved' \in Seq(T!Range(saved')) /\ DOMAIN saved' = 1 .. id /\ id \in Nat
            /\ DOMAIN saved = 1 .. Len(saved) /\ id \notin DOMAIN saved
            /\ \A n \in DOMAIN saved : n \in DOMAIN saved' /\ saved'[n] = saved[n]
            /\ \A n \in DOMAIN saved' : n \in DOMAIN saved \/ n = id
            /\ d.id = id /\ d.dialect = T!Current.dialect /\ d.place = T!Current.place /\ d.user = T!Current.user
            /\ d.password = T!Current.password /\ d.group = None
            /\ d.catalog = T!RelinkDucklakeCatalogs(T!Current, import.newIds)
            /\ import'.newIds = ids /\ import'.groupIds = import.groupIds /\ import'.chosen = import.chosen
            /\ import'.known = import.known /\ import'.from = import.from
            /\ import'.byDefault = import.byDefault /\ import'.of = import.of
            /\ \/ T!Current.folder = None /\ import' = T!Onward(ids) /\ import'.left = Tail(import.left)
                  /\ import'.at = "add"
               \/ T!Current.folder # None /\ import'.left = import.left
                  /\ import'.at = IF Lower[T!Current.folder] \in DOMAIN import.groupIds THEN "move" ELSE "group"
            /\ UNCHANGED <<groups, listed, listedGroups, finished, reading, text, candidates, basis>>
<1> DEFINE id == Len(saved) + 1
           ids == T!With(import.newIds, T!Current.ref, id)
           d == [id |-> id, dialect |-> T!Current.dialect, place |-> T!Current.place, user |-> T!Current.user,
                 password |-> T!Current.password, group |-> None,
                 catalog |-> T!RelinkDucklakeCatalogs(T!Current, import.newIds)]
<1>1. saved \in Seq(T!Range(saved)) /\ Len(saved) \in Nat /\ DOMAIN saved = 1 .. Len(saved)
  BY SeqIs DEF T!TransferInv, T!ListsAreSaved
<1>2. T!At("add") /\ saved' = Append(saved, d)
  BY DEF T!AddConnection
<1>3. d.id = id /\ d.dialect = T!Current.dialect /\ d.place = T!Current.place /\ d.user = T!Current.user
      /\ d.password = T!Current.password /\ d.group = None
      /\ d.catalog = T!RelinkDucklakeCatalogs(T!Current, import.newIds)
  OBVIOUS
<1> HIDE DEF d
<1>4. /\ saved' \in Seq(T!Range(saved')) /\ DOMAIN saved' = 1 .. id /\ saved'[id] = d
      /\ \A n \in DOMAIN saved : n \in DOMAIN saved' /\ saved'[n] = saved[n]
      /\ \A n \in DOMAIN saved' : n \in DOMAIN saved \/ n = id
  BY <1>1, <1>2, AppendIs
<1>5. id \in Nat /\ id \notin DOMAIN saved
  BY <1>1
<1> HIDE DEF id
<1>6. import' = IF T!Current.folder = None THEN T!Onward(ids)
                ELSE T!Going(IF Lower[T!Current.folder] \in DOMAIN import.groupIds THEN "move" ELSE "group",
                           import.left, ids, import.groupIds, import.count)
  BY DEF T!AddConnection, id
<1> HIDE DEF ids
<1>7. /\ import'.newIds = ids /\ import'.groupIds = import.groupIds /\ import'.chosen = import.chosen
      /\ import'.known = import.known /\ import'.from = import.from
      /\ import'.byDefault = import.byDefault /\ import'.of = import.of
      /\ \/ T!Current.folder = None /\ import' = T!Onward(ids) /\ import'.left = Tail(import.left)
            /\ import'.at = "add"
         \/ T!Current.folder # None /\ import'.left = import.left
            /\ import'.at = IF Lower[T!Current.folder] \in DOMAIN import.groupIds THEN "move" ELSE "group"
  BY <1>6 DEF T!Onward, T!Going
<1>8. UNCHANGED <<groups, listed, listedGroups, finished, reading, text, candidates, basis>>
  BY DEF T!AddConnection, T!lists, T!files, T!reads
<1> QED
  BY <1>1, <1>2, <1>3, <1>4, <1>5, <1>7, <1>8 DEF id, ids

LEMMA AddsTheCurrent ==
  ASSUME T!TransferInv, T!AddConnection
  PROVE  /\ T!Pending(import) = DOMAIN import.left /\ T!Current.ref \notin DOMAIN import.newIds
         /\ \A r \in DOMAIN import.newIds : \E e \in import.chosen : e.ref = r /\ T!Added(e, import, saved)
         /\ \A e \in import.chosen : T!Current.catalog = e.ref => e.ref \in DOMAIN import.newIds
<1>1. /\ T!InTurn(import) /\ import.at = "add" /\ 1 \in DOMAIN import.left /\ T!Current = import.left[1]
      /\ T!Current \in import.chosen /\ T!Exists(import) /\ DOMAIN import.left = 1 .. Len(import.left)
      /\ import.left \in Seq(import.chosen) /\ Len(import.left) \in Nat
  BY AddIs, AtIs
<1>2. T!Pending(import) = DOMAIN import.left
  BY <1>1 DEF T!Pending
<1>3. DOMAIN import.newIds = {c.ref : c \in import.chosen} \ {import.left[k].ref : k \in DOMAIN import.left}
  BY <1>1, <1>2 DEF T!InTurn
<1>4. T!Current.ref \notin DOMAIN import.newIds
  BY <1>1, <1>3
<1>5. \A r \in DOMAIN import.newIds : \E e \in import.chosen : e.ref = r /\ T!Added(e, import, saved)
  BY <1>1, <1>3 DEF T!TransferInv, T!AddedSoFar
<1>6. ASSUME NEW e \in import.chosen, T!Current.catalog = e.ref PROVE e.ref \in DOMAIN import.newIds
  <2>1. T!Current.dialect = "s3" /\ e.dialect # "s3"
    BY <1>1, <1>6, ChosenAre
  <2>2. ASSUME NEW k \in DOMAIN import.left PROVE import.left[k].ref # e.ref
    <3>1. import.left[k] \in import.chosen /\ k \in Nat /\ (k = 1 \/ 1 < k)
      BY <1>1
    <3>2. import.left[k].dialect = "s3"
      BY <1>1, <2>1, <3>1 DEF T!InTurn
    <3> QED
      BY <1>1, <2>1, <3>1, <3>2, ChosenAre
  <2> QED
    BY <1>3, <2>2
<1> QED
  BY <1>2, <1>4, <1>5, <1>6

LEMMA AddLists ==
  ASSUME T!TransferInv, T!AddConnection
  PROVE  T!ListsAreSaved' /\ T!CandidatesAreParsed'
<1> DEFINE id == Len(saved) + 1
           d == saved'[id]
<1>1. /\ saved' \in Seq(T!Range(saved')) /\ DOMAIN saved' = 1 .. id /\ id \in Nat
      /\ \A n \in DOMAIN saved : n \in DOMAIN saved' /\ saved'[n] = saved[n]
      /\ \A n \in DOMAIN saved' : n \in DOMAIN saved \/ n = id
      /\ d.id = id /\ d.dialect = T!Current.dialect
      /\ d.catalog = T!RelinkDucklakeCatalogs(T!Current, import.newIds)
      /\ UNCHANGED <<groups, listed, listedGroups, reading, text, candidates, basis>>
  BY AddIs
<1>2. T!Exists(import) /\ T!Current \in import.chosen /\ T!Linked(T!Current, saved)
  BY AddIs, AtIs, ChosenAre
<1> HIDE DEF id, d
<1>3. T!Linked(d, saved')
  <2>1. CASE T!Current.catalog # None /\ T!Current.catalog \in DOMAIN import.newIds
    <3>1. d.catalog = import.newIds[T!Current.catalog]
      BY <1>1, <2>1 DEF T!RelinkDucklakeCatalogs, T!Exists
    <3>2. PICK e \in import.chosen : e.ref = T!Current.catalog /\ T!Added(e, import, saved)
      BY <2>1, AddsTheCurrent
    <3>3. T!Current.dialect = "s3" /\ e.dialect # "s3"
      BY <1>2, <3>2, ChosenAre
    <3>4. /\ d.catalog \in DOMAIN saved /\ T!EndpointKey(saved[d.catalog]) = T!EndpointKey(e)
      BY <3>1, <3>2 DEF T!Added
    <3>5. saved[d.catalog].dialect # "s3"
      BY <3>3, <3>4 DEF T!EndpointKey
    <3>6. d.catalog \in Nat
      BY <1>1, <3>4
    <3> QED
      BY <1>1, <3>3, <3>4, <3>5, <3>6 DEF T!Linked
  <2>2. CASE ~(T!Current.catalog # None /\ T!Current.catalog \in DOMAIN import.newIds)
    <3>1. d.catalog = T!Current.catalog
      BY <1>1, <2>2 DEF T!RelinkDucklakeCatalogs, T!Exists
    <3>2. T!Linked(T!Current, saved')
      BY <1>1, <1>2, LinkedStays
    <3> QED
      BY <1>1, <3>1, <3>2 DEF T!Linked
  <2> QED
    BY <2>1, <2>2
<1>4. T!ListsAreSaved'
  <2>1. \A n \in DOMAIN saved : saved[n].id = n /\ T!Linked(saved[n], saved)
    BY DEF T!TransferInv, T!ListsAreSaved
  <2>2. \A n \in DOMAIN saved' : saved'[n].id = n /\ T!Linked(saved'[n], saved')
    BY <1>1, <1>3, <2>1, LinkedStays DEF d
  <2>3. DOMAIN listed \subseteq DOMAIN saved' /\ \A n \in DOMAIN listed : saved'[n] = saved[n]
    BY <1>1 DEF T!TransferInv, T!ListsAreSaved
  <2> QED
    BY <1>1, <2>2, <2>3 DEF T!TransferInv, T!ListsAreSaved
<1>5. \A f : T!IsFile(f, saved) => T!IsFile(f, saved')
  BY <1>1, FileStays
<1>6. T!CandidatesAreParsed'
  BY <1>1, <1>5 DEF T!TransferInv, T!CandidatesAreParsed
<1> QED
  BY <1>4, <1>6

LEMMA AddInOrder ==
  ASSUME T!TransferInv, T!AddConnection
  PROVE  T!ImportInOrder' /\ T!GroupsAreKnown' /\ T!OneGroupPerFolder'
<1> DEFINE ids == T!With(import.newIds, T!Current.ref, Len(saved) + 1)
<1>1. /\ T!At("add") /\ import'.newIds = ids /\ import'.groupIds = import.groupIds
      /\ import'.chosen = import.chosen /\ import'.known = import.known /\ import'.from = import.from
      /\ import'.of = import.of /\ groups' = groups
      /\ \A n \in DOMAIN saved : n \in DOMAIN saved' /\ saved'[n] = saved[n]
      /\ \/ T!Current.folder = None /\ import' = T!Onward(ids) /\ import'.left = Tail(import.left)
            /\ import'.at = "add"
         \/ T!Current.folder # None /\ import'.left = import.left
            /\ import'.at = IF Lower[T!Current.folder] \in DOMAIN import.groupIds THEN "move" ELSE "group"
  BY AddIs
<1>2. /\ T!InTurn(import) /\ import.at = "add" /\ 1 \in DOMAIN import.left /\ T!Current = import.left[1]
      /\ T!Current \in import.chosen /\ T!Exists(import) /\ DOMAIN import.left = 1 .. Len(import.left)
      /\ Len(import.left) \in Nat /\ import.left \in Seq(import.chosen)
  BY <1>1, AtIs
<1>3. DOMAIN ids = {c.ref : c \in import.chosen} \ {import.left[k].ref : k \in DOMAIN import.left \ {1}}
  <2>1. DOMAIN ids = DOMAIN import.newIds \cup {T!Current.ref}
    BY DEF ids, T!With
  <2>2. DOMAIN import.newIds = {c.ref : c \in import.chosen} \ {import.left[k].ref : k \in DOMAIN import.left}
    BY <1>2, AddsTheCurrent DEF T!InTurn
  <2>3. \A k \in DOMAIN import.left : import.left[k].ref = T!Current.ref => k = 1
    BY <1>2 DEF T!InTurn
  <2> QED
    BY <1>2, <2>1, <2>2, <2>3
<1> HIDE DEF ids
<1>4. T!InTurn(import')
  <2>1. CASE import' = T!Onward(ids)
    BY <1>1, <1>3, <2>1, OnwardInTurn
  <2>2. CASE /\ T!Current.folder # None /\ import'.left = import.left
             /\ import'.at = IF Lower[T!Current.folder] \in DOMAIN import.groupIds THEN "move" ELSE "group"
    <3>1. T!Pending(import') = DOMAIN import.left \ {1}
      BY <1>2, <2>2 DEF T!Pending
    <3>2. import.left # <<>> /\ Head(import'.left) = T!Current
      BY <1>1, <2>2 DEF T!At, T!Current
    <3>3. DOMAIN import'.newIds = {c.ref : c \in import'.chosen} \ {import'.left[k].ref : k \in T!Pending(import')}
      BY <1>1, <1>3, <2>2, <3>1
    <3>4. import'.at \in {"group", "move"}
      BY <2>2
    <3>5. \A j, k \in DOMAIN import.left :
            /\ import.left[j].ref = import.left[k].ref => j = k
            /\ j < k /\ import.left[j].dialect = "s3" => import.left[k].dialect = "s3"
      BY <1>2 DEF T!InTurn
    <3>6. import'.left \in Seq(import'.chosen)
      BY <1>1, <1>2, <2>2
    <3> QED
      BY <2>2, <3>2, <3>3, <3>4, <3>5, <3>6 DEF T!InTurn, T!Exists
  <2> QED
    BY <1>1, <2>1, <2>2
<1>5. T!ImportInOrder'
  <2>1. /\ T!IsFile(import.of.file, saved)
        /\ import.chosen \subseteq {c \in T!Range(T!Parsed(import.of)) : T!HasConfig(c)}
    BY <1>2 DEF T!TransferInv, T!ImportInOrder
  <2>2. T!IsFile(import.of.file, saved')
    BY <1>1, <2>1, FileStays
  <2> QED
    BY <1>1, <1>4, <2>1, <2>2 DEF T!ImportInOrder
<1>6. T!GroupsAreKnown'
  <2>1. import'.at # "add" => T!Current' = T!Current
    BY <1>1 DEF T!Current
  <2>2. /\ import'.at = "move" => Lower[T!Current'.folder] \in DOMAIN import.groupIds
        /\ import'.at = "group" => Lower[T!Current'.folder] \notin DOMAIN import.groupIds
    BY <1>1, <2>1
  <2> QED
    BY <1>1, <1>2, <2>2 DEF T!TransferInv, T!GroupsAreKnown
<1>7. T!OneGroupPerFolder'
  BY <1>1, <1>2 DEF T!TransferInv, T!OneGroupPerFolder
<1> QED
  BY <1>5, <1>6, <1>7
LEMMA AddAdded ==
  ASSUME T!TransferInv, T!AddConnection
  PROVE  T!AddedSoFar' /\ T!CatalogFirst' /\ T!AllImported'
<1> DEFINE id == Len(saved) + 1
           ids == T!With(import.newIds, T!Current.ref, id)
           d == saved'[id]
<1>1. /\ T!At("add") /\ id \in DOMAIN saved' /\ id \notin DOMAIN saved /\ groups' = groups /\ finished' = finished
      /\ \A n \in DOMAIN saved : n \in DOMAIN saved' /\ saved'[n] = saved[n]
      /\ import'.newIds = ids /\ import'.chosen = import.chosen
      /\ \/ T!Current.folder = None /\ import'.left = Tail(import.left)
         \/ T!Current.folder # None /\ import'.left = import.left
  BY AddIs
<1>2. /\ d.dialect = T!Current.dialect /\ d.place = T!Current.place /\ d.user = T!Current.user
      /\ d.password = T!Current.password /\ d.group = None
      /\ d.catalog = T!RelinkDucklakeCatalogs(T!Current, import.newIds)
  BY AddIs
<1>3. T!EndpointKey(d) = T!EndpointKey(T!Current)
  BY <1>2 DEF T!EndpointKey
<1>4. /\ T!InTurn(import) /\ T!Current = import.left[1] /\ T!Current \in import.chosen /\ T!Exists(import)
      /\ 1 \in DOMAIN import.left /\ import.left \in Seq(import.chosen)
      /\ \A k \in DOMAIN import.left :
           k > 1 => k - 1 \in DOMAIN Tail(import.left) /\ Tail(import.left)[k - 1] = import.left[k]
      /\ \A k \in DOMAIN import.left : k = 1 \/ k > 1
  BY <1>1, AtIs
<1>5. /\ T!Pending(import) = DOMAIN import.left /\ T!Current.ref \notin DOMAIN import.newIds
      /\ \A r \in DOMAIN import.newIds : \E e \in import.chosen : e.ref = r /\ T!Added(e, import, saved)
      /\ \A e \in import.chosen : T!Current.catalog = e.ref => e.ref \in DOMAIN import.newIds
  BY AddsTheCurrent
<1>6. /\ DOMAIN ids = DOMAIN import.newIds \cup {T!Current.ref} /\ ids[T!Current.ref] = id
      /\ \A k \in DOMAIN import.newIds : ids[k] = import.newIds[k]
  BY <1>5 DEF T!With
<1>7. \A r \in DOMAIN import.newIds : import.newIds[r] \in DOMAIN saved
  BY <1>5 DEF T!Added
<1> HIDE DEF id, ids, d
<1>8. \A c, e \in import.chosen : c.ref = e.ref => c = e
  BY <1>4, ChosenAre
<1>9. T!CatalogFirst'
  <2> SUFFICES ASSUME NEW c \in import.chosen, NEW e \in import.chosen, c.catalog = e.ref, c.ref \in DOMAIN ids
               PROVE  e.ref \in DOMAIN ids
    BY <1>1 DEF T!CatalogFirst
  <2>1. CASE c.ref = T!Current.ref
    BY <1>4, <1>5, <1>6, <1>8, <2>1
  <2>2. CASE c.ref # T!Current.ref
    BY <1>4, <1>6, <2>2 DEF T!TransferInv, T!CatalogFirst
  <2> QED
    BY <2>1, <2>2
<1>10. ASSUME NEW c \in import.chosen, c.ref \in DOMAIN ids PROVE T!Added(c, import', saved')
  <2>1. CASE c.ref = T!Current.ref
    <3>1. c = T!Current /\ ids[c.ref] = id
      BY <1>4, <1>6, <1>8, <2>1
    <3>2. ASSUME NEW e \in import.chosen, c.catalog = e.ref PROVE d.catalog = ids[e.ref]
      <4>1. e.ref \in DOMAIN import.newIds /\ c.catalog # None
        BY <1>4, <1>5, <3>1, <3>2, ChosenAre
      <4>2. d.catalog = import.newIds[e.ref]
        BY <1>2, <3>1, <3>2, <4>1 DEF T!RelinkDucklakeCatalogs, T!Exists
      <4> QED
        BY <1>6, <4>1, <4>2
    <3> QED
      BY <1>1, <1>2, <1>3, <1>10, <3>1, <3>2 DEF T!Added, d
  <2>2. CASE c.ref # T!Current.ref
    <3>1. c.ref \in DOMAIN import.newIds /\ ids[c.ref] = import.newIds[c.ref]
      BY <1>6, <1>10, <2>2
    <3>2. T!Added(c, import, saved)
      BY <1>4, <3>1 DEF T!TransferInv, T!AddedSoFar
    <3>3. saved'[ids[c.ref]] = saved[import.newIds[c.ref]] /\ ids[c.ref] \in DOMAIN saved'
      BY <1>1, <1>7, <3>1
    <3>4. ASSUME NEW e \in import.chosen, c.catalog = e.ref PROVE ids[e.ref] = import.newIds[e.ref]
      <4>1. e.ref \in DOMAIN import.newIds
        BY <1>4, <3>1, <3>4 DEF T!TransferInv, T!CatalogFirst
      <4> QED
        BY <1>6, <4>1
    <3> QED
      BY <1>1, <1>10, <3>2, <3>3, <3>4 DEF T!Added
  <2> QED
    BY <2>1, <2>2
<1>11. ASSUME NEW c \in import.chosen, c \notin T!Range(import'.left)
       PROVE  T!InItsFolder(c, import', saved', groups')
  <2>1. CASE c = T!Current
    <3>1. T!Current.folder = None
      <4>1. T!Current \in T!Range(import.left)
        BY <1>4 DEF T!Range
      <4> QED
        BY <1>1, <1>11, <2>1, <4>1
    <3> QED
      BY <1>1, <1>2, <1>6, <2>1, <3>1 DEF T!InItsFolder, T!Exists, d
  <2>2. CASE c # T!Current
    <3>1. c \notin T!Range(import.left)
      <4> SUFFICES ASSUME NEW k \in DOMAIN import.left, c = import.left[k] PROVE FALSE
        BY DEF T!Range
      <4>1. k > 1
        BY <1>4, <2>2
      <4>2. c \in T!Range(Tail(import.left))
        BY <1>4, <4>1 DEF T!Range
      <4>3. c \in T!Range(import.left)
        BY DEF T!Range
      <4> QED
        BY <1>1, <1>11, <4>2, <4>3
    <3>2. T!InItsFolder(c, import, saved, groups)
      BY <1>4, <3>1 DEF T!TransferInv, T!AddedSoFar
    <3>3. c.ref \in DOMAIN import.newIds
      <4>1. ASSUME NEW k \in DOMAIN import.left PROVE import.left[k].ref # c.ref
        <5>1. import.left[k] \in import.chosen /\ import.left[k] \in T!Range(import.left)
          BY <1>4 DEF T!Range
        <5> QED
          BY <1>8, <3>1, <5>1
      <4> QED
        BY <1>4, <1>5, <4>1 DEF T!InTurn
    <3>4. saved'[import'.newIds[c.ref]] = saved[import.newIds[c.ref]]
      BY <1>1, <1>6, <1>7, <3>3
    <3> QED
      BY <1>1, <3>2, <3>4 DEF T!InItsFolder
  <2> QED
    BY <2>1, <2>2
<1>12. \A r, q \in DOMAIN ids : ids[r] = ids[q] => r = q
  <2>1. \A r, q \in DOMAIN import.newIds : import.newIds[r] = import.newIds[q] => r = q
    BY <1>4 DEF T!TransferInv, T!AddedSoFar
  <2> QED
    BY <1>1, <1>6, <1>7, <2>1
<1>13. T!Exists(finished) =>
         \A c \in finished.chosen, r \in DOMAIN ids : ids[r] # finished.newIds[c.ref]
  <2> SUFFICES ASSUME T!Exists(finished), NEW c \in finished.chosen, NEW r \in DOMAIN ids
               PROVE  ids[r] # finished.newIds[c.ref]
    OBVIOUS
  <2>1. finished.newIds[c.ref] \in DOMAIN saved
    BY DEF T!TransferInv, T!AllImported, T!Added
  <2>2. r \in DOMAIN import.newIds => import.newIds[r] # finished.newIds[c.ref]
    BY <1>4 DEF T!TransferInv, T!AddedSoFar
  <2> QED
    BY <1>1, <1>6, <2>1, <2>2
<1>14. T!AddedSoFar'
  BY <1>1, <1>10, <1>11, <1>12, <1>13 DEF T!AddedSoFar
<1>15. T!AllImported'
  <2> SUFFICES ASSUME T!Exists(finished), NEW c \in finished.chosen
               PROVE  T!Added(c, finished, saved') /\ T!InItsFolder(c, finished, saved', groups)
    BY <1>1 DEF T!AllImported
  <2>1. T!Added(c, finished, saved) /\ T!InItsFolder(c, finished, saved, groups)
    BY DEF T!TransferInv, T!AllImported
  <2>2. T!Added(c, finished, saved')
    BY <1>1, <2>1, AddedStays
  <2>3. finished.newIds[c.ref] \in DOMAIN saved
    BY <2>1 DEF T!Added
  <2> QED
    BY <1>1, <2>1, <2>2, <2>3, InItsFolderStays
<1> QED
  BY <1>9, <1>14, <1>15

LEMMA AddNoDouble ==
  ASSUME T!TransferInv, T!AddConnection
  PROVE  T!NoDoubleByDefault' /\ T!SecondImportIsNoOp'
<1> DEFINE id == Len(saved) + 1
           d == saved'[id]
           left == import.left
<1>1. /\ T!At("add") /\ finished' = finished
      /\ \A n \in DOMAIN saved : n \in DOMAIN saved' /\ saved'[n] = saved[n]
      /\ \A n \in DOMAIN saved' : n \in DOMAIN saved \/ n = id
      /\ import'.chosen = import.chosen /\ import'.of = import.of /\ import'.byDefault = import.byDefault
      /\ \/ import'.left = Tail(left) /\ import'.at = "add"
         \/ import'.left = left /\ import'.at \in {"move", "group"}
  BY AddIs
<1>2. T!EndpointKey(d) = T!EndpointKey(T!Current)
  BY AddIs DEF T!EndpointKey
<1> HIDE DEF id, d
<1>3. T!Keys(T!Range(saved)) \subseteq T!Keys(T!Range(saved'))
  BY <1>1, KeysStay
<1>4. T!SecondImportIsNoOp'
  BY <1>1, <1>3, SecondStays DEF T!TransferInv, T!SecondImportIsNoOp
<1>5. T!NoDoubleByDefault'
  <2> SUFFICES ASSUME import.byDefault
               PROVE  /\ T!AllThatIsNew(import', saved')
                      /\ \A k \in T!Pending(import') :
                           /\ \A x \in T!Range(saved') : ~T!Repeats(import'.left[k], x)
                           /\ \A j \in T!Pending(import') : j < k => ~T!Repeats(import'.left[k], import'.left[j])
    BY <1>1 DEF T!NoDoubleByDefault
  <2>1. /\ T!Pending(import) = DOMAIN left /\ T!Exists(import) /\ T!Current = left[1] /\ 1 \in DOMAIN left
        /\ Len(left) \in Nat /\ DOMAIN left = 1 .. Len(left) /\ DOMAIN Tail(left) = 1 .. Len(left) - 1
        /\ \A k \in DOMAIN Tail(left) : Tail(left)[k] = left[k + 1] /\ k + 1 \in DOMAIN left
    BY <1>1, AtIs, AddsTheCurrent
  <2> HIDE DEF left
  <2>2. /\ T!AllThatIsNew(import, saved)
        /\ \A k \in DOMAIN left :
             /\ \A x \in T!Range(saved) : ~T!Repeats(left[k], x)
             /\ \A j \in DOMAIN left : j < k => ~T!Repeats(left[k], left[j])
    BY <2>1 DEF T!TransferInv, T!NoDoubleByDefault, left
  <2>3. T!AllThatIsNew(import', saved')
    BY <1>1, <1>3, <2>2 DEF T!AllThatIsNew
  <2>4. ASSUME NEW k \in DOMAIN left, k > 1, NEW x \in T!Range(saved') PROVE ~T!Repeats(left[k], x)
    <3>1. PICK n \in DOMAIN saved' : x = saved'[n]
      BY DEF T!Range
    <3>2. CASE n \in DOMAIN saved
      BY <1>1, <2>2, <3>1, <3>2 DEF T!Range
    <3>3. CASE n = id
      <4>1. ~T!Repeats(left[k], left[1])
        BY <2>1, <2>2, <2>4
      <4> QED
        BY <1>2, <2>1, <3>1, <3>3, <4>1, RepeatsByKey DEF d
    <3> QED
      BY <1>1, <3>2, <3>3
  <2>5. \A k \in T!Pending(import') : \E m \in DOMAIN left :
          m > 1 /\ import'.left[k] = left[m] /\ m = IF import'.at = "add" THEN k + 1 ELSE k
    BY <1>1, <2>1 DEF T!Pending
  <2>6. \A k \in T!Pending(import') : k \in Nat
    BY <1>1, <2>1 DEF T!Pending
  <2>7. ASSUME NEW k \in T!Pending(import') PROVE \A x \in T!Range(saved') : ~T!Repeats(import'.left[k], x)
    BY <2>4, <2>5
  <2>8. ASSUME NEW k \in T!Pending(import'), NEW j \in T!Pending(import'), j < k
        PROVE  ~T!Repeats(import'.left[k], import'.left[j])
    <3>1. PICK m \in DOMAIN left : import'.left[k] = left[m] /\ m = IF import'.at = "add" THEN k + 1 ELSE k
      BY <2>5
    <3>2. PICK n \in DOMAIN left : import'.left[j] = left[n] /\ n = IF import'.at = "add" THEN j + 1 ELSE j
      BY <2>5
    <3>3. n < m
      BY <2>6, <2>8, <3>1, <3>2
    <3> QED
      BY <2>2, <3>1, <3>2, <3>3
  <2> QED
    BY <2>3, <2>7, <2>8
<1> QED
  BY <1>4, <1>5

LEMMA AddKeeps ==
  ASSUME T!TransferInv, T!AddConnection
  PROVE  T!TransferInv'
BY AddLists, AddInOrder, AddAdded, AddNoDouble DEF T!TransferInv
-----------------------------------------------------------------------------
(* folder.create: the import is at the same candidate. *)
LEMMA CreateGroupKeeps ==
  ASSUME T!TransferInv, T!CreateGroup
  PROVE  T!TransferInv'
<1> DEFINE name == Lower[T!Current.folder]
           new == Len(groups) + 1
           ids == T!With(import.groupIds, name, new)
<1>1. /\ T!At("group") /\ groups' = Append(groups, T!Current.folder)
      /\ import'.at = "move" /\ import'.left = import.left /\ import'.newIds = import.newIds
      /\ import'.groupIds = ids /\ import'.chosen = import.chosen /\ import'.known = import.known
      /\ import'.from = import.from /\ import'.byDefault = import.byDefault /\ import'.of = import.of
      /\ UNCHANGED <<saved, listed, listedGroups, finished, reading, text, candidates, basis>>
  BY DEF T!CreateGroup, T!Going, T!lists, T!files, T!reads
<1>2. /\ groups \in Seq(T!Range(groups)) /\ Len(groups) \in Nat /\ DOMAIN groups = 1 .. Len(groups)
      /\ groups' \in Seq(T!Range(groups')) /\ DOMAIN groups' = 1 .. Len(groups) + 1
      /\ \A i \in DOMAIN groups : i \in DOMAIN groups' /\ groups'[i] = groups[i]
      /\ groups'[new] = T!Current.folder /\ \A i \in DOMAIN groups' : i \in DOMAIN groups \/ i = new
  BY <1>1, AppendIs, SeqIs DEF T!TransferInv, T!ListsAreSaved
<1>3. new \in DOMAIN groups' /\ new \notin DOMAIN groups /\ new \in Nat
  BY <1>2
<1>4. T!Exists(import) /\ T!InTurn(import) /\ import.at = "group" /\ import.left # <<>>
  BY <1>1, AtIs DEF T!At
<1>5. name \notin DOMAIN import.groupIds
  BY <1>4 DEF T!TransferInv, T!GroupsAreKnown
<1>6. /\ DOMAIN ids = DOMAIN import.groupIds \cup {name} /\ ids[name] = new
      /\ \A k \in DOMAIN import.groupIds : ids[k] = import.groupIds[k]
  BY <1>5 DEF T!With
<1> HIDE DEF new, name, ids
<1>7. T!ListsAreSaved' /\ T!CandidatesAreParsed'
  BY <1>1, <1>2 DEF T!TransferInv, T!ListsAreSaved, T!CandidatesAreParsed
<1>8. T!Pending(import') = T!Pending(import)
  BY <1>1, <1>4 DEF T!Pending
<1>9. T!ImportInOrder'
  <2>1. T!InTurn(import')
    BY <1>1, <1>4, <1>8 DEF T!InTurn
  <2> QED
    BY <1>1, <1>4, <2>1 DEF T!TransferInv, T!ImportInOrder
<1>10. T!Current' = T!Current
  BY <1>1 DEF T!Current
<1>11. T!GroupsAreKnown'
  <2>1. \A k \in DOMAIN ids : ids[k] \in DOMAIN groups' /\ Lower[groups'[ids[k]]] = k
    BY <1>2, <1>3, <1>4, <1>6 DEF T!TransferInv, T!GroupsAreKnown, name
  <2>2. \A i \in DOMAIN groups' : i \in DOMAIN import.known \/ i > import.from => Lower[groups'[i]] \in DOMAIN ids
    BY <1>2, <1>4, <1>6 DEF T!TransferInv, T!GroupsAreKnown, name
  <2>3. Lower[T!Current'.folder] \in DOMAIN ids
    BY <1>6, <1>10 DEF name
  <2> QED
    BY <1>1, <1>4, <2>1, <2>2, <2>3 DEF T!TransferInv, T!GroupsAreKnown
<1>12. \A c, i : T!InItsFolder(c, i, saved, groups) => T!InItsFolder(c, i, saved, groups')
  BY <1>2, InItsFolderStays
<1>13. T!AddedSoFar'
  <2>1. \A c : T!Added(c, import, saved) => T!Added(c, import', saved)
    BY <1>1 DEF T!Added
  <2>2. \A c : T!InItsFolder(c, import, saved, groups') => T!InItsFolder(c, import', saved, groups')
    BY <1>1 DEF T!InItsFolder
  <2> QED
    BY <1>1, <1>4, <1>12, <2>1, <2>2 DEF T!TransferInv, T!AddedSoFar
<1>14. T!AllImported'
  BY <1>1, <1>12 DEF T!TransferInv, T!AllImported
<1>15. T!CatalogFirst'
  BY <1>1, <1>4 DEF T!TransferInv, T!CatalogFirst
<1>16. T!OneGroupPerFolder'
  <2> SUFFICES ASSUME NEW i \in DOMAIN groups', NEW j \in DOMAIN groups', i < j, j > import.from,
                      Lower[groups'[i]] = Lower[groups'[j]]
               PROVE  i <= import.from /\ i \notin DOMAIN import.known
    BY <1>1 DEF T!OneGroupPerFolder
  <2>1. i \in DOMAIN groups /\ i \in Nat /\ import.from \in Nat /\ groups'[i] = groups[i]
    <3>1. i \in 1 .. Len(groups) + 1 /\ j \in 1 .. Len(groups) + 1
      BY <1>2
    <3>2. i \in 1 .. Len(groups)
      BY <1>2, <3>1
    <3> QED
      BY <1>2, <1>4, <3>2 DEF T!TransferInv, T!GroupsAreKnown
  <2>2. CASE j \in DOMAIN groups
    BY <1>2, <1>4, <2>1, <2>2 DEF T!TransferInv, T!OneGroupPerFolder
  <2>3. CASE j = new
    <3>1. Lower[groups[i]] \notin DOMAIN import.groupIds
      BY <1>2, <1>5, <2>1, <2>3 DEF name
    <3>2. ~(i \in DOMAIN import.known \/ i > import.from)
      BY <1>4, <2>1, <3>1 DEF T!TransferInv, T!GroupsAreKnown
    <3> QED
      BY <2>1, <3>2
  <2> QED
    BY <1>2, <2>2, <2>3
<1>17. T!NoDoubleByDefault' /\ T!SecondImportIsNoOp'
  <2>1. T!AllThatIsNew(import, saved) => T!AllThatIsNew(import', saved)
    BY <1>1 DEF T!AllThatIsNew
  <2>2. T!NoDoubleByDefault'
    BY <1>1, <1>4, <1>8, <2>1 DEF T!TransferInv, T!NoDoubleByDefault
  <2> QED
    BY <1>1, <2>2 DEF T!TransferInv, T!SecondImportIsNoOp
<1> QED
  BY <1>7, <1>9, <1>11, <1>13, <1>14, <1>15, <1>16, <1>17 DEF T!TransferInv

-----------------------------------------------------------------------------
(* folder.moveConnection. *)
LEMMA MoveIs ==
  ASSUME T!TransferInv, T!MoveConnection
  PROVE  LET id == import.newIds[T!Current.ref]
         IN /\ T!At("move") /\ import' = T!Onward(import.newIds) /\ T!Current.ref \in DOMAIN import.newIds
            /\ import'.at = "add" /\ import'.left = Tail(import.left) /\ import'.newIds = import.newIds
            /\ import'.groupIds = import.groupIds /\ import'.chosen = import.chosen
            /\ import'.known = import.known /\ import'.from = import.from
            /\ import'.byDefault = import.byDefault /\ import'.of = import.of
            /\ UNCHANGED <<groups, listed, listedGroups, finished, reading, text, candidates, basis>>
            /\ saved' \in Seq(T!Range(saved')) /\ DOMAIN saved' = DOMAIN saved
            /\ \A n \in DOMAIN saved :
                 /\ saved'[n].id = n /\ saved'[n].dialect = saved[n].dialect
                 /\ saved'[n].password = saved[n].password /\ saved'[n].catalog = saved[n].catalog
                 /\ T!EndpointKey(saved'[n]) = T!EndpointKey(saved[n])
                 /\ IF n = id THEN saved'[n].group = import.groupIds[Lower[T!Current.folder]]
                    ELSE saved'[n] = saved[n]
<1> DEFINE id == import.newIds[T!Current.ref]
           g == import.groupIds[Lower[T!Current.folder]]
<1>1. /\ T!At("move") /\ import' = T!Onward(import.newIds)
      /\ import'.at = "add" /\ import'.left = Tail(import.left) /\ import'.newIds = import.newIds
      /\ import'.groupIds = import.groupIds /\ import'.chosen = import.chosen
      /\ import'.known = import.known /\ import'.from = import.from
      /\ import'.byDefault = import.byDefault /\ import'.of = import.of
      /\ UNCHANGED <<groups, listed, listedGroups, finished, reading, text, candidates, basis>>
  BY DEF T!MoveConnection, T!Onward, T!Going, T!lists, T!files, T!reads
<1>2. T!Current.ref \in DOMAIN import.newIds
  <2>1. /\ T!InTurn(import) /\ import.at = "move" /\ 1 \in DOMAIN import.left /\ T!Current = import.left[1]
        /\ T!Current \in import.chosen /\ DOMAIN import.left = 1 .. Len(import.left)
    BY <1>1, AtIs
  <2>2. ASSUME NEW k \in T!Pending(import) PROVE import.left[k].ref # T!Current.ref
    <3>1. k \in DOMAIN import.left /\ k # 1
      BY <2>1 DEF T!Pending
    <3> QED
      BY <2>1, <3>1 DEF T!InTurn
  <2> QED
    BY <2>1, <2>2 DEF T!InTurn
<1>3. /\ saved \in Seq(T!Range(saved)) /\ Len(saved) \in Nat /\ DOMAIN saved = 1 .. Len(saved)
      /\ \A n \in DOMAIN saved : saved[n].id = n
  BY SeqIs DEF T!TransferInv, T!ListsAreSaved
<1>4. saved' = [n \in DOMAIN saved |-> IF saved[n].id = id THEN T!Moved(saved[n], g) ELSE saved[n]]
  BY DEF T!MoveConnection
<1> HIDE DEF id, g
<1>5. saved' \in Seq(T!Range(saved')) /\ DOMAIN saved' = DOMAIN saved
  <2>1. DOMAIN saved' = 1 .. Len(saved) /\ saved' = [n \in 1 .. Len(saved) |-> saved'[n]]
    BY <1>3, <1>4
  <2>2. \A n \in 1 .. Len(saved) : saved'[n] \in T!Range(saved')
    BY <2>1 DEF T!Range
  <2> QED
    BY <1>3, <2>1, <2>2
<1>6. ASSUME NEW n \in DOMAIN saved
      PROVE  /\ saved'[n].id = n /\ saved'[n].dialect = saved[n].dialect
             /\ saved'[n].password = saved[n].password /\ saved'[n].catalog = saved[n].catalog
             /\ T!EndpointKey(saved'[n]) = T!EndpointKey(saved[n])
             /\ IF n = id THEN saved'[n].group = g ELSE saved'[n] = saved[n]
  <2>1. saved'[n] = IF n = id THEN T!Moved(saved[n], g) ELSE saved[n]
    BY <1>3, <1>4
  <2>2. CASE n = id
    <3>1. /\ saved'[n].id = n /\ saved'[n].dialect = saved[n].dialect
          /\ saved'[n].password = saved[n].password /\ saved'[n].catalog = saved[n].catalog
          /\ saved'[n].place = saved[n].place /\ saved'[n].user = saved[n].user
          /\ saved'[n].group = g
      BY <1>3, <2>1, <2>2 DEF T!Moved
    <3>2. T!EndpointKey(saved'[n]) = T!EndpointKey(saved[n])
      BY <3>1 DEF T!EndpointKey
    <3> QED
      BY <2>2, <3>1, <3>2
  <2>3. CASE n # id
    BY <1>3, <2>1, <2>3
  <2> QED
    BY <2>2, <2>3
<1> QED
  BY <1>1, <1>2, <1>5, <1>6 DEF id, g

LEMMA MoveKeeps ==
  ASSUME T!TransferInv, T!MoveConnection
  PROVE  T!TransferInv'
<1> DEFINE id == import.newIds[T!Current.ref]
<1>1. /\ T!At("move") /\ import' = T!Onward(import.newIds) /\ T!Current.ref \in DOMAIN import.newIds
      /\ import'.at = "add" /\ import'.left = Tail(import.left) /\ import'.newIds = import.newIds
      /\ import'.groupIds = import.groupIds /\ import'.chosen = import.chosen
      /\ import'.known = import.known /\ import'.from = import.from
      /\ import'.byDefault = import.byDefault /\ import'.of = import.of
      /\ UNCHANGED <<groups, listed, listedGroups, finished, reading, text, candidates, basis>>
  BY MoveIs
<1>2. /\ saved' \in Seq(T!Range(saved')) /\ DOMAIN saved' = DOMAIN saved
      /\ \A n \in DOMAIN saved :
           /\ saved'[n].id = n /\ saved'[n].dialect = saved[n].dialect
           /\ saved'[n].password = saved[n].password /\ saved'[n].catalog = saved[n].catalog
           /\ T!EndpointKey(saved'[n]) = T!EndpointKey(saved[n])
           /\ IF n = id THEN saved'[n].group = import.groupIds[Lower[T!Current.folder]]
              ELSE saved'[n] = saved[n]
  BY MoveIs
<1>3. /\ T!Exists(import) /\ T!InTurn(import) /\ import.at = "move" /\ import.left # <<>>
      /\ T!Current = import.left[1] /\ T!Current \in import.chosen /\ 1 \in DOMAIN import.left
      /\ \A k \in DOMAIN import.left :
           k > 1 => k - 1 \in DOMAIN Tail(import.left) /\ Tail(import.left)[k - 1] = import.left[k]
      /\ Len(import.left) \in Nat /\ DOMAIN import.left = 1 .. Len(import.left)
      /\ DOMAIN Tail(import.left) = 1 .. Len(import.left) - 1
      /\ \A k \in DOMAIN Tail(import.left) :
           Tail(import.left)[k] = import.left[k + 1] /\ k + 1 \in DOMAIN import.left
  BY <1>1, AtIs DEF T!At
<1>4. T!Pending(import) = DOMAIN import.left \ {1}
  BY <1>3 DEF T!Pending
<1>5. T!Pending(import') = DOMAIN Tail(import.left)
  BY <1>1 DEF T!Pending
<1> HIDE DEF id
<1>6. T!ListsAreSaved' /\ T!CandidatesAreParsed'
  <2>1. \A n \in DOMAIN saved : T!Linked(saved'[n], saved')
    <3> SUFFICES ASSUME NEW n \in DOMAIN saved PROVE T!Linked(saved'[n], saved')
      OBVIOUS
    <3>1. T!Linked(saved[n], saved')
      BY <1>2, LinkedStays DEF T!TransferInv, T!ListsAreSaved
    <3> QED
      BY <1>2, <3>1 DEF T!Linked
  <2>2. T!ListsAreSaved'
    BY <1>1, <1>2, <2>1 DEF T!TransferInv, T!ListsAreSaved
  <2>3. \A f : T!IsFile(f, saved) => T!IsFile(f, saved')
    BY <1>2, FileStays
  <2>4. T!CandidatesAreParsed'
    BY <1>1, <2>3 DEF T!TransferInv, T!CandidatesAreParsed
  <2> QED
    BY <2>2, <2>4
<1>7. T!ImportInOrder'
  <2>1. T!InTurn(import')
    <3>1. DOMAIN import.newIds
            = {c.ref : c \in import.chosen} \ {import.left[k].ref : k \in DOMAIN import.left \ {1}}
      BY <1>3, <1>4 DEF T!InTurn
    <3> QED
      BY <1>1, <3>1, OnwardInTurn
  <2>2. /\ T!IsFile(import.of.file, saved)
        /\ import.chosen \subseteq {c \in T!Range(T!Parsed(import.of)) : T!HasConfig(c)}
    BY <1>3 DEF T!TransferInv, T!ImportInOrder
  <2>3. T!IsFile(import.of.file, saved')
    BY <1>2, <2>2, FileStays
  <2> QED
    BY <1>1, <2>1, <2>2, <2>3 DEF T!ImportInOrder
<1>8. T!GroupsAreKnown' /\ T!OneGroupPerFolder' /\ T!CatalogFirst'
  BY <1>1, <1>3 DEF T!TransferInv, T!GroupsAreKnown, T!OneGroupPerFolder, T!CatalogFirst
<1>9. T!AddedSoFar'
  <2>1. ASSUME NEW c \in import.chosen, c.ref \in DOMAIN import.newIds
        PROVE  T!Added(c, import', saved')
    <3>1. T!Added(c, import, saved')
      BY <1>2, <1>3, <2>1, AddedStays DEF T!TransferInv, T!AddedSoFar
    <3> QED
      BY <1>1, <3>1 DEF T!Added
  <2>2. ASSUME NEW c \in import.chosen, c \notin T!Range(Tail(import.left))
        PROVE  T!InItsFolder(c, import', saved', groups)
    <3>1. CASE c = T!Current
      <4>1. /\ T!Exists(T!Current.folder)
            /\ Lower[T!Current.folder] \in DOMAIN import.groupIds
        BY <1>3 DEF T!TransferInv, T!GroupsAreKnown, T!InTurn, T!Current
      <4>2. import.groupIds[Lower[T!Current.folder]] \in DOMAIN groups
            /\ Lower[groups[import.groupIds[Lower[T!Current.folder]]]] = Lower[T!Current.folder]
        BY <1>3, <4>1 DEF T!TransferInv, T!GroupsAreKnown
      <4>3. id \in DOMAIN saved
        BY <1>1, <1>3 DEF T!TransferInv, T!AddedSoFar, T!Added, id
      <4>4. saved'[id].group = import.groupIds[Lower[T!Current.folder]]
        BY <1>2, <4>3
      <4> QED
        BY <1>1, <3>1, <4>1, <4>2, <4>4 DEF T!InItsFolder, id
    <3>2. CASE c # T!Current
      <4>1. c \notin T!Range(import.left)
        <5> SUFFICES ASSUME NEW k \in DOMAIN import.left, c = import.left[k] PROVE FALSE
          BY DEF T!Range
        <5>1. k > 1
          BY <1>3, <3>2
        <5> QED
          BY <1>3, <2>2, <5>1 DEF T!Range
      <4>2. T!InItsFolder(c, import, saved, groups)
        BY <1>3, <4>1 DEF T!TransferInv, T!AddedSoFar
      <4>3. c.ref \in DOMAIN import.newIds
        <5>1. ASSUME NEW k \in T!Pending(import) PROVE import.left[k].ref # c.ref
          <6>1. import.left[k] \in import.chosen /\ import.left[k] \in T!Range(import.left)
            BY <1>3, <1>4 DEF T!Range, T!InTurn
          <6> QED
            BY <1>3, <4>1, <6>1, ChosenAre
        <5> QED
          BY <1>3, <5>1 DEF T!InTurn
      <4>4. import.newIds[c.ref] # id
        <5>1. c.ref # T!Current.ref
          BY <1>3, <3>2, ChosenAre
        <5> QED
          BY <1>1, <1>3, <4>3, <5>1 DEF T!TransferInv, T!AddedSoFar, id
      <4>5. import.newIds[c.ref] \in DOMAIN saved
        BY <1>3, <4>3 DEF T!TransferInv, T!AddedSoFar, T!Added
      <4>6. saved'[import.newIds[c.ref]] = saved[import.newIds[c.ref]]
        BY <1>2, <4>4, <4>5
      <4> QED
        BY <1>1, <4>2, <4>6 DEF T!InItsFolder
    <3> QED
      BY <3>1, <3>2
  <2>3. /\ \A r, q \in DOMAIN import.newIds : import.newIds[r] = import.newIds[q] => r = q
        /\ T!Exists(finished) =>
             \A c \in finished.chosen, r \in DOMAIN import.newIds : import.newIds[r] # finished.newIds[c.ref]
    BY <1>3 DEF T!TransferInv, T!AddedSoFar
  <2> QED
    BY <1>1, <2>1, <2>2, <2>3 DEF T!AddedSoFar
<1>10. T!AllImported'
  <2> SUFFICES ASSUME T!Exists(finished), NEW c \in finished.chosen
               PROVE  T!Added(c, finished, saved') /\ T!InItsFolder(c, finished, saved', groups)
    BY <1>1 DEF T!AllImported
  <2>1. T!Added(c, finished, saved) /\ T!InItsFolder(c, finished, saved, groups)
    BY DEF T!TransferInv, T!AllImported
  <2>2. T!Added(c, finished, saved')
    BY <1>2, <2>1, AddedStays
  <2>3. finished.newIds[c.ref] \in DOMAIN saved
    BY <2>1 DEF T!Added
  <2>4. finished.newIds[c.ref] # id
    BY <1>1, <1>3 DEF T!TransferInv, T!AddedSoFar, id
  <2>5. saved'[finished.newIds[c.ref]] = saved[finished.newIds[c.ref]]
    BY <1>2, <2>3, <2>4
  <2> QED
    BY <2>1, <2>2, <2>5, InItsFolderStays
<1>11. T!Keys(T!Range(saved)) \subseteq T!Keys(T!Range(saved'))
  BY <1>2, KeysStay
<1>12. T!SecondImportIsNoOp'
  BY <1>1, <1>11, SecondStays DEF T!TransferInv, T!SecondImportIsNoOp
<1>13. T!NoDoubleByDefault'
  <2> SUFFICES ASSUME import.byDefault
               PROVE  /\ T!AllThatIsNew(import', saved')
                      /\ \A k \in T!Pending(import') :
                           /\ \A x \in T!Range(saved') : ~T!Repeats(import'.left[k], x)
                           /\ \A j \in T!Pending(import') : j < k => ~T!Repeats(import'.left[k], import'.left[j])
    BY <1>1 DEF T!NoDoubleByDefault
  <2>1. /\ T!AllThatIsNew(import, saved)
        /\ \A k \in T!Pending(import) :
             /\ \A x \in T!Range(saved) : ~T!Repeats(import.left[k], x)
             /\ \A j \in T!Pending(import) : j < k => ~T!Repeats(import.left[k], import.left[j])
    BY <1>3 DEF T!TransferInv, T!NoDoubleByDefault
  <2>2. T!AllThatIsNew(import', saved')
    BY <1>1, <1>11, <2>1 DEF T!AllThatIsNew
  <2>3. \A k \in T!Pending(import') :
          k \in Nat /\ k + 1 \in T!Pending(import) /\ import'.left[k] = import.left[k + 1]
    BY <1>1, <1>3, <1>4, <1>5
  <2>4. ASSUME NEW k \in T!Pending(import'), NEW x \in T!Range(saved') PROVE ~T!Repeats(import'.left[k], x)
    <3>1. PICK n \in DOMAIN saved' : x = saved'[n]
      BY DEF T!Range
    <3>2. saved[n] \in T!Range(saved) /\ T!EndpointKey(saved[n]) = T!EndpointKey(x)
      BY <1>2, <3>1 DEF T!Range
    <3> QED
      BY <2>1, <2>3, <3>2, RepeatsByKey
  <2>5. ASSUME NEW k \in T!Pending(import'), NEW j \in T!Pending(import'), j < k
        PROVE  ~T!Repeats(import'.left[k], import'.left[j])
    <3>1. j + 1 < k + 1
      BY <2>3, <2>5
    <3> QED
      BY <2>1, <2>3, <3>1
  <2> QED
    BY <2>2, <2>4, <2>5
<1> QED
  BY <1>6, <1>7, <1>8, <1>9, <1>10, <1>12, <1>13 DEF T!TransferInv

-----------------------------------------------------------------------------
(* The import is done. *)
LEMMA ImportEndsKeeps ==
  ASSUME T!TransferInv, T!ImportEnds
  PROVE  T!TransferInv'
<1> DEFINE i == import
<1>1. /\ T!Exists(import) /\ import.left = <<>> /\ import' = None /\ finished' = import
      /\ candidates' = None /\ text' = None
      /\ UNCHANGED <<basis, saved, groups, listed, listedGroups, reading>>
  BY DEF T!ImportEnds, T!reads
<1>2. T!ListsAreSaved' /\ T!CandidatesAreParsed'
  BY <1>1 DEF T!TransferInv, T!ListsAreSaved, T!CandidatesAreParsed, T!Exists
<1>3. /\ T!ImportInOrder' /\ T!GroupsAreKnown' /\ T!AddedSoFar' /\ T!CatalogFirst' /\ T!OneGroupPerFolder'
      /\ T!NoDoubleByDefault'
  BY <1>1 DEF T!ImportInOrder, T!GroupsAreKnown, T!AddedSoFar, T!CatalogFirst, T!OneGroupPerFolder,
              T!NoDoubleByDefault, T!Exists
<1>4. \A c \in import.chosen : T!Added(c, import, saved) /\ T!InItsFolder(c, import, saved, groups)
  <2>1. DOMAIN import.left = {} /\ T!Range(import.left) = {}
    BY <1>1 DEF T!Range
  <2>2. DOMAIN import.newIds = {c.ref : c \in import.chosen}
    BY <1>1, <2>1 DEF T!TransferInv, T!ImportInOrder, T!InTurn, T!Pending
  <2> QED
    BY <1>1, <2>1, <2>2 DEF T!TransferInv, T!AddedSoFar
<1>5. T!AllImported'
  BY <1>1, <1>4 DEF T!AllImported
<1>6. T!SecondImportIsNoOp'
  <2> SUFFICES ASSUME import.byDefault
               PROVE  /\ T!AllThatIsNew(import, saved)
                      /\ T!Ready(T!ParseConnectionImport(import.of.from, import.of.file, T!Range(saved),
                                                     import.of.secrets)) = {}
    BY <1>1 DEF T!SecondImportIsNoOp
  <2>1. T!AllThatIsNew(import, saved)
    BY <1>1 DEF T!TransferInv, T!NoDoubleByDefault
  <2> DEFINE f == import.of.file
             r == T!AsCandidates(import.of.from, f, import.of.secrets)
             p == T!ParseConnectionImport(import.of.from, f, import.of.listed, import.of.secrets)
             q == T!ParseConnectionImport(import.of.from, f, T!Range(saved), import.of.secrets)
  <2>2. ASSUME NEW n \in DOMAIN f.entries, q[n].status = "ready" PROVE FALSE
    <3>1. p[n].status = "ready"
      BY <2>1, <2>2, MoreIsDouble DEF T!AllThatIsNew
    <3>2. DOMAIN p = DOMAIN f.entries /\ T!EndpointKey(p[n]) = T!EndpointKey(r[n])
      BY ParseIs
    <3>3. \A d \in T!Range(saved) : ~T!Repeats(r[n], d)
      BY <2>2, ParseIs
    <3> HIDE DEF p, q, r
    <3>4. p[n] \in import.chosen
      BY <2>1, <3>1, <3>2 DEF T!AllThatIsNew, T!Parsed, p, T!Range
    <3>5. PICK d \in T!Range(saved) : T!EndpointKey(d) = T!EndpointKey(p[n])
      BY <1>4, <3>4 DEF T!Added, T!Range
    <3> QED
      BY <3>2, <3>3, <3>5 DEF T!Repeats
  <2> QED
    BY <2>1, <2>2, NoneIsReady
<1> QED
  BY <1>2, <1>3, <1>5, <1>6 DEF T!TransferInv

LEMMA TransferNextKeeps ==
  ASSUME T!TransferInv, T!TransferNext
  PROVE  T!TransferInv'
<1>1. CASE (\E s \in {"omni-sql", "dbeaver"} : T!ChooseSource(s)) \/ T!Reopen
  BY <1>1, ForgetKeeps DEF T!ChooseSource, T!Reopen
<1>2. CASE T!ChooseBackup
  BY <1>2, ChooseBackupKeeps
<1>3. CASE T!FileRead
  BY <1>3, FileReadKeeps
<1>4. CASE \E f \in Theirs : T!Choose(f)
  BY <1>4, TheirsAreFiles, ChooseKeeps
<1>5. CASE T!CredentialsRead
  BY <1>5, CredentialsReadKeeps
<1>6. CASE \/ \E k \in CredentialFiles : T!ChooseCredentials(k)
           \/ T!CredentialsUnreadable
           \/ T!Exists(candidates) /\ \E c \in T!Range(candidates) : T!Toggle(c)
  BY <1>6, DialogKeeps
<1>7. CASE T!RunImport
  BY <1>7, RunImportKeeps
<1>8. CASE T!AddConnection
  BY <1>8, AddKeeps
<1>9. CASE T!CreateGroup
  BY <1>9, CreateGroupKeeps
<1>10. CASE T!MoveConnection
  BY <1>10, MoveKeeps
<1>11. CASE T!ImportEnds
  BY <1>11, ImportEndsKeeps
<1>12. CASE T!ImportFails
  BY <1>12, ImportFailsKeeps
<1>13. CASE T!LoadGroups \/ T!LoadConnections
  BY <1>13, LoadKeeps
<1> QED
  BY <1>1, <1>2, <1>3, <1>4, <1>5, <1>6, <1>7, <1>8, <1>9, <1>10, <1>11, <1>12, <1>13 DEF T!TransferNext

(* An import saves each chosen connection once, in its folder, with its    *)
(* catalog there first; it makes no folder twice, and what the dialog      *)
(* checked by itself is neither saved twice nor found again: whatever the  *)
(* files, the failures of calls and the bounds.                            *)
THEOREM TransferHolds == ConnectionsSpec => []TransferInv
<1>1. ConnectionsInit => TransferInv
  BY InitHolds DEF ConnectionsInit, TransferInv
<1>2. TransferInv /\ [ConnectionsNext]_<<about, vars, transferVars>> => TransferInv'
  <2> SUFFICES ASSUME TransferInv, [ConnectionsNext]_<<about, vars, transferVars>>, about' = "transfer"
               PROVE  T!TransferInv'
    BY DEF TransferInv
  <2>1. CASE TransferStep
    BY <2>1, TransferNextKeeps DEF TransferStep, TransferInv
  <2>2. CASE SessionStep
    BY <2>2 DEF SessionStep
  <2>3. CASE UNCHANGED <<about, vars, transferVars>>
    BY <2>3, TransferStutters DEF TransferInv, transferVars, T!transferVars, T!lists, T!files, T!reads
  <2> QED
    BY <2>1, <2>2, <2>3 DEF ConnectionsNext
<1> QED
  BY <1>1, <1>2, PTL DEF ConnectionsSpec
=============================================================================
