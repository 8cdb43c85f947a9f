-------------------------- MODULE LiveStream_proofs --------------------------
(***************************************************************************)
(* Theorems about LiveStream, for every number of clients, readers, lost   *)
(* connections and turns and every length of the log: the projections are  *)
(* exact, and the live stream leaves no line out - the seq of a line is    *)
(* its place among the rendered lines of the log, and each connection goes *)
(* on where the client says the one before it ended. So it implements      *)
(* StreamDelivery.                                                         *)
(***************************************************************************)
EXTENDS MCLiveStream, FiniteSetTheorems, SequenceTheorems, TLAPS

Projection == [off : Nat, rendered : SUBSET Nat]

\* A projection stands for the lines that are complete at its offset.
Exact(p) == p.off <= Len(file) /\ p.rendered = RenderedUpTo(p.off)

\* What TypeOK says of the rest, with the domains of the functions.
Types ==
    /\ appends \in Nat /\ row \in {"live", "ended", "absent"}
    /\ ends \in Nat /\ endmark \in Nat /\ drops \in Nat
    /\ cpc \in [Task -> {"off", "take", "sync", "insert", "send", "status", "wait", "exit"}]
    /\ phase \in [Client -> {"backfill", "loop", "tail"}]
    /\ cursor \in [Client -> Nat] /\ last \in [Client -> Nat]
    /\ fr \in [Client -> Nat] /\ mark \in [Client -> Nat]
    /\ recv \in [Client -> Seq(Nat \X Nat)]

\* Every projection, in the cache or taken out of it, is exact; what is being sent is in the
\* log.
Held ==
    /\ file \in Seq(Body \cup {"nl"})
    /\ cache \in Projection /\ Exact(cache)
    /\ proj \in [Task -> Projection] /\ \A t \in Task : Exact(proj[t])
    /\ out \in [Client -> SUBSET Nat] /\ \A c \in Client : out[c] \subseteq Bodies

Inv == Types /\ Held

-----------------------------------------------------------------------------
(* The log only grows, and what was complete stays as it was. *)

\* A line ends with its newline: appending to the log changes no line that is complete.
LEMMA AppendKeepsLines ==
    ASSUME file \in Seq(Body \cup {"nl"}), NEW s \in Seq(Body \cup {"nl"}), file' = file \o s
    PROVE  /\ file' \in Seq(Body \cup {"nl"}) /\ Len(file) <= Len(file')
           /\ Bodies \subseteq Bodies'
           /\ \A n \in Nat : n <= Len(file) => RenderedUpTo(n)' = RenderedUpTo(n)
<1>1. /\ file' \in Seq(Body \cup {"nl"}) /\ Len(file') = Len(file) + Len(s)
      /\ Len(file) \in Nat /\ Len(s) \in Nat
      /\ \A q \in 1..Len(file) : file'[q] = file[q]
  OBVIOUS
<1>2. Bodies \subseteq Bodies'
  BY <1>1 DEF Bodies
<1>3. ASSUME NEW n \in Nat, n <= Len(file), NEW q, q + 1 <= n
      PROVE  q \in Rendered' <=> q \in Rendered
  <2>1. q \in Bodies \/ q \in Bodies' => q \in 1..(Len(file) - 1)
    BY <1>1, <1>3 DEF Bodies
  <2>2. CASE q \in 1..(Len(file) - 1)
    <3>1. /\ file'[q] = file[q] /\ file'[q + 1] = file[q + 1]
          /\ q > 1 => file'[q - 1] = file[q - 1]
      BY <1>1, <2>2
    <3> QED BY <1>1, <2>2, <3>1 DEF Rendered, IsRendered, IsLine, Bodies
  <2> QED BY <2>1, <2>2 DEF Rendered
<1>4. ASSUME NEW n \in Nat, n <= Len(file)
      PROVE  RenderedUpTo(n)' = RenderedUpTo(n)
  BY <1>3, <1>4 DEF RenderedUpTo
<1> QED BY <1>1, <1>2, <1>4

\* sync() makes a projection that was exact exact again.
LEMMA SyncedIsExact ==
    ASSUME file \in Seq(Body \cup {"nl"}), NEW p \in Projection, Exact(p)
    PROVE  Synced(p) \in Projection /\ Exact(Synced(p))
<1>1. Len(file) \in Nat /\ Rendered \subseteq 1..Len(file)
  BY DEF Rendered, Bodies
<1>2. Synced(p).off = Len(file)
  BY DEF Synced
<1>3. Synced(p).rendered = RenderedUpTo(Len(file))
  <2>1. Synced(p).rendered = RenderedUpTo(p.off) \cup {q \in Rendered : q + 1 > p.off /\ q + 1 <= Len(file)}
    BY DEF Synced, Exact
  <2>2. \A q \in Rendered : q \in Nat
    BY <1>1
  <2>3. p.off \in Nat /\ p.off <= Len(file)
    BY DEF Projection, Exact
  <2>4. ASSUME NEW q \in Rendered
        PROVE  q + 1 <= Len(file) <=> q + 1 <= p.off \/ (q + 1 > p.off /\ q + 1 <= Len(file))
    <3>1. q \in Nat
      BY <2>2
    <3> QED BY ONLY <1>1, <2>3, <3>1
  <2> QED BY <2>1, <2>4, Zenon DEF RenderedUpTo
<1>4. RenderedUpTo(Len(file)) \in SUBSET Nat
  <2>1. RenderedUpTo(Len(file)) \subseteq Rendered
    BY Zenon DEF RenderedUpTo
  <2>2. Rendered \subseteq Nat
    BY <1>1
  <2> QED BY <2>1, <2>2
<1>5. Synced(p) = [off |-> Synced(p).off, rendered |-> Synced(p).rendered]
  BY DEF Synced
<1>6. Synced(p) \in Projection
  BY <1>1, <1>2, <1>3, <1>4, <1>5 DEF Projection
<1> QED BY <1>1, <1>2, <1>3, <1>6 DEF Exact

\* An empty projection is exact.
LEMMA FreshIsExact ==
    ASSUME file \in Seq(Body \cup {"nl"})
    PROVE  Fresh \in Projection /\ Exact(Fresh)
<1>1. Len(file) \in Nat /\ Rendered \subseteq 1..Len(file)
  BY DEF Rendered, Bodies
<1>2. RenderedUpTo(0) = {}
  <2>1. \A q \in Rendered : ~(q + 1 <= 0)
    BY <1>1
  <2> QED BY <2>1, Zenon DEF RenderedUpTo
<1> QED BY <1>1, <1>2 DEF Fresh, Exact, Projection

-----------------------------------------------------------------------------
(* The invariant. *)

LEMMA InvInit == Init => Inv
<1> SUFFICES ASSUME Init PROVE Inv
  OBVIOUS
<1>1. file \in Seq(Body \cup {"nl"})
  BY DEF Init
<1>2. Fresh \in Projection /\ Exact(Fresh)
  BY <1>1, FreshIsExact
<1> QED BY <1>1, <1>2 DEF Init, Inv, Types, Held, Task

\* A projection that was exact is exact in the longer log.
LEMMA StaysExact ==
    ASSUME file \in Seq(Body \cup {"nl"}),
           file' = file \/ \E s \in Seq(Body \cup {"nl"}) : file' = file \o s
    PROVE  /\ file' \in Seq(Body \cup {"nl"}) /\ Bodies \subseteq Bodies'
           /\ \A p \in Projection : Exact(p) => Exact(p)'
<1>1. CASE file' = file
  BY <1>1 DEF Exact, RenderedUpTo, Rendered, IsRendered, IsLine, Bodies
<1>2. ASSUME NEW s \in Seq(Body \cup {"nl"}), file' = file \o s
      PROVE  /\ file' \in Seq(Body \cup {"nl"}) /\ Bodies \subseteq Bodies'
             /\ \A p \in Projection : Exact(p) => Exact(p)'
  <2>1. /\ file' \in Seq(Body \cup {"nl"}) /\ Len(file) <= Len(file') /\ Bodies \subseteq Bodies'
        /\ \A n \in Nat : n <= Len(file) => RenderedUpTo(n)' = RenderedUpTo(n)
    BY <1>2, AppendKeepsLines
  <2>2. ASSUME NEW p \in Projection, Exact(p) PROVE Exact(p)'
    <3>1. p.off \in Nat /\ p.off <= Len(file) /\ p.rendered = RenderedUpTo(p.off)
      BY <2>2 DEF Projection, Exact
    <3>2. RenderedUpTo(p.off)' = RenderedUpTo(p.off)
      BY <2>1, <3>1
    <3>3. p.off <= Len(file')
      BY <2>1, <3>1, <1>2
    <3> QED BY <3>1, <3>2, <3>3 DEF Exact
  <2> QED BY <2>1, <2>2
<1> QED BY <1>1, <1>2

\* A step that leaves the log alone and moves exact projections about.
LEMMA HeldKept ==
    ASSUME Held, UNCHANGED file,
           cache' \in Projection, Exact(cache'),
           proj' \in [Task -> Projection], \A t \in Task : Exact(proj'[t]),
           out' \in [Client -> SUBSET Nat], \A c \in Client : out'[c] \subseteq Bodies
    PROVE  Held'
BY DEF Held, Exact, RenderedUpTo, Rendered, IsRendered, IsLine, Bodies

\* Every step keeps the types.
LEMMA TypesNext ==
    ASSUME Inv, [Next]_vars
    PROVE  Types'
<1> USE DEF Inv, Types, Held, Task, logVars, rowVars, connVars, Goto, Hangup
<1>1. CASE BridgeWrites
  BY <1>1 DEF BridgeWrites
<1>2. CASE EngineWritesLine
  BY <1>2 DEF EngineWritesLine
<1>3. CASE EngineWritesNewline
  BY <1>3 DEF EngineWritesNewline
<1>4. CASE TurnEnds
  <2>1. Cardinality(Rendered) \in Nat
    <3>1. IsFiniteSet(1..Len(file))
      BY FS_Interval
    <3>2. Rendered \subseteq 1..Len(file)
      BY DEF Rendered, Bodies
    <3> QED BY <3>1, <3>2, FS_Subset, FS_CardinalityType
  <2> QED BY <1>4, <2>1 DEF TurnEnds
<1>5. CASE Resumed
  BY <1>5 DEF Resumed
<1>6. CASE Delete
  BY <1>6 DEF Delete
<1>7. CASE Evict
  BY <1>7 DEF Evict
<1>8. ASSUME NEW c \in Client, Connect(c) PROVE Types'
  BY <1>8 DEF Connect
<1>9. ASSUME NEW c \in Client, TakeOut(c) PROVE Types'
  BY <1>9 DEF TakeOut
<1>10. ASSUME NEW c \in Task, Sync(c) PROVE Types'
  BY <1>10 DEF Sync
<1>11. ASSUME NEW c \in Client, Insert(c) PROVE Types'
  BY <1>11 DEF Insert
<1>12. ASSUME NEW c \in Client, Send(c) PROVE Types'
  <2>1. PICK q \in out[c] :
            /\ recv' = [recv EXCEPT ![c] = Append(@, <<q, fr[c] + 1>>)]
            /\ last' = [last EXCEPT ![c] = cursor[c] + 1]
            /\ fr' = [fr EXCEPT ![c] = 0] \/ fr' = [fr EXCEPT ![c] = @ + 1]
            /\ cursor' = cursor \/ cursor' = [cursor EXCEPT ![c] = @ + 1]
    BY <1>12 DEF Send
  <2>2. <<q, fr[c] + 1>> \in Nat \X Nat
    OBVIOUS
  <2>3. recv' \in [Client -> Seq(Nat \X Nat)]
    BY <2>1, <2>2
  <2>4. \A n \in Nat : n + 1 \in Nat
    OBVIOUS
  <2>5. last' \in [Client -> Nat]
    BY <2>1, <2>4
  <2>6. fr' \in [Client -> Nat]
    <3>1. fr \in [Client -> Nat]
      OBVIOUS
    <3>2. CASE fr' = [fr EXCEPT ![c] = @ + 1]
      BY ONLY <3>1, <3>2
    <3>3. CASE fr' = [fr EXCEPT ![c] = 0]
      BY ONLY <3>1, <3>3
    <3> QED BY <2>1, <3>2, <3>3
  <2>7. cursor' \in [Client -> Nat]
    <3>1. cursor \in [Client -> Nat]
      OBVIOUS
    <3>2. CASE cursor' = [cursor EXCEPT ![c] = @ + 1]
      BY ONLY <3>1, <3>2
    <3> QED BY <2>1, <3>1, <3>2
  <2> QED BY <1>12, <2>3, <2>5, <2>6, <2>7 DEF Send
<1>13. ASSUME NEW c \in Client, SendDone(c) PROVE Types'
  BY <1>13 DEF SendDone
<1>14. ASSUME NEW c \in Client, Status(c) PROVE Types'
  <2>1. CASE row = "absent"
    <3>1. /\ cpc' = [cpc EXCEPT ![c] = "off"] /\ fr' = [fr EXCEPT ![c] = 0]
          /\ mark' = [mark EXCEPT ![c] = 0] /\ phase' = [phase EXCEPT ![c] = "backfill"]
          /\ UNCHANGED <<appends, row, ends, endmark, drops, cursor, recv>>
      BY <1>14, <2>1 DEF Status
    <3>2. last' \in [Client -> Nat]
      BY <1>14 DEF Status
    <3>3. cpc' \in [Task -> {"off", "take", "sync", "insert", "send", "status", "wait", "exit"}]
      BY <3>1
    <3> QED BY <3>1, <3>2, <3>3
  <2>2. CASE row = "live"
    BY <1>14, <2>2 DEF Status
  <2>3. CASE row = "ended"
    BY <1>14, <2>3 DEF Status
  <2> QED BY <2>1, <2>2, <2>3
<1>15. ASSUME NEW c \in Client, Wake(c) PROVE Types'
  <2>1. CASE row = "absent"
    <3>1. /\ cpc' = [cpc EXCEPT ![c] = "off"] /\ fr' = [fr EXCEPT ![c] = 0]
          /\ mark' = [mark EXCEPT ![c] = 0] /\ phase' = [phase EXCEPT ![c] = "backfill"]
          /\ UNCHANGED <<appends, row, ends, endmark, drops, cursor, recv>>
      BY <1>15, <2>1 DEF Wake
    <3>2. last' \in [Client -> Nat]
      BY <1>15 DEF Wake
    <3>3. cpc' \in [Task -> {"off", "take", "sync", "insert", "send", "status", "wait", "exit"}]
      BY <3>1
    <3> QED BY <3>1, <3>2, <3>3
  <2>2. CASE row # "absent"
    BY <1>15, <2>2 DEF Wake
  <2> QED BY <2>1, <2>2
<1>16. ASSUME NEW c \in Client, Exit(c) PROVE Types'
  BY <1>16 DEF Exit
<1>17. ASSUME NEW c \in Client, Drop(c) PROVE Types'
  BY <1>17 DEF Drop
<1>18. ASSUME NEW r \in Reader, Request(r) PROVE Types'
  BY <1>18 DEF Request
<1>19. ASSUME NEW r \in Reader, Respond(r) PROVE Types'
  BY <1>19 DEF Respond
<1>20. CASE UNCHANGED vars
  BY <1>20 DEF vars
<1> QED BY <1>1, <1>2, <1>3, <1>4, <1>5, <1>6, <1>7, <1>8, <1>9, <1>10, <1>11, <1>12, <1>13,
           <1>14, <1>15, <1>16, <1>17, <1>18, <1>19, <1>20 DEF Next, SocketStep, Task

\* A connection that ends drops the projection it has taken out.
LEMMA LetGo ==
    ASSUME Held, NEW c \in Client, UNCHANGED <<file, cache>>,
           \/ UNCHANGED <<proj, out>>
           \/ proj' = [proj EXCEPT ![c] = Fresh] /\ out' = [out EXCEPT ![c] = {}]
    PROVE  Held'
<1> USE DEF Held
<1>1. /\ proj' \in [Task -> Projection]
      /\ \A t \in Task : proj'[t] = proj[t] \/ proj'[t] = Fresh
  BY FreshIsExact DEF Task
<1>2. \A t \in Task : Exact(proj'[t])
  BY <1>1, FreshIsExact
<1>3. out' \in [Client -> SUBSET Nat] /\ \A d \in Client : out'[d] \subseteq Bodies
  OBVIOUS
<1> QED BY <1>1, <1>2, <1>3, HeldKept

\* Every step keeps the projections exact.
LEMMA HeldNext ==
    ASSUME Inv, [Next]_vars
    PROVE  Held'
<1> USE DEF Inv, Types, Held, Task, logVars, rowVars, connVars, Goto, Hangup
<1>1. CASE BridgeWrites
  <2>1. PICK b \in Body : file' = file \o <<b, "nl">>
    BY <1>1 DEF BridgeWrites
  <2>3. <<b, "nl">> \in Seq(Body \cup {"nl"})
    BY DEF Body
  <2>2. UNCHANGED <<cache, proj, out>>
    BY <1>1 DEF BridgeWrites
  <2>4. /\ file' \in Seq(Body \cup {"nl"}) /\ Bodies \subseteq Bodies'
        /\ \A p \in Projection : Exact(p) => Exact(p)'
    BY <2>1, <2>3, StaysExact
  <2>5. Exact(cache)' /\ \A t \in Task : Exact(proj[t])'
    BY <2>2, <2>4 DEF Exact
  <2> QED BY <2>2, <2>4, <2>5
<1>2. CASE EngineWritesLine
  <2>1. file' = file \o <<"one">>
    BY <1>2 DEF EngineWritesLine
  <2>3. <<"one">> \in Seq(Body \cup {"nl"})
    BY DEF Body, Frames
  <2>2. UNCHANGED <<cache, proj, out>>
    BY <1>2 DEF EngineWritesLine
  <2>4. /\ file' \in Seq(Body \cup {"nl"}) /\ Bodies \subseteq Bodies'
        /\ \A p \in Projection : Exact(p) => Exact(p)'
    BY <2>1, <2>3, StaysExact
  <2>5. Exact(cache)' /\ \A t \in Task : Exact(proj[t])'
    BY <2>2, <2>4 DEF Exact
  <2> QED BY <2>2, <2>4, <2>5
<1>3. CASE EngineWritesNewline
  <2>1. file' = file \o <<"nl">>
    BY <1>3 DEF EngineWritesNewline
  <2>3. <<"nl">> \in Seq(Body \cup {"nl"})
    BY DEF Body
  <2>2. UNCHANGED <<cache, proj, out>>
    BY <1>3 DEF EngineWritesNewline
  <2>4. /\ file' \in Seq(Body \cup {"nl"}) /\ Bodies \subseteq Bodies'
        /\ \A p \in Projection : Exact(p) => Exact(p)'
    BY <2>1, <2>3, StaysExact
  <2>5. Exact(cache)' /\ \A t \in Task : Exact(proj[t])'
    BY <2>2, <2>4 DEF Exact
  <2> QED BY <2>2, <2>4, <2>5
<1>4. CASE TurnEnds
  <2>1. UNCHANGED <<file, cache, proj, out>>
    BY <1>4 DEF TurnEnds
  <2> QED BY <2>1, HeldKept
<1>5. CASE Resumed
  <2>1. UNCHANGED <<file, cache, proj, out>>
    BY <1>5 DEF Resumed
  <2> QED BY <2>1, HeldKept
<1>6. CASE Delete
  <2>1. cache' = Fresh /\ UNCHANGED <<file, proj, out>>
    BY <1>6 DEF Delete
  <2> QED BY <2>1, FreshIsExact, HeldKept
<1>7. CASE Evict
  <2>1. cache' = Fresh /\ UNCHANGED <<file, proj, out>>
    BY <1>7 DEF Evict
  <2> QED BY <2>1, FreshIsExact, HeldKept
<1>8. ASSUME NEW c \in Client, Connect(c) PROVE Held'
  <2>1. UNCHANGED <<file, cache, proj, out>>
    BY <1>8 DEF Connect
  <2> QED BY <2>1, HeldKept
<1>9. ASSUME NEW c \in Client, TakeOut(c) PROVE Held'
  <2>1. cache' = Fresh /\ proj' = [proj EXCEPT ![c] = cache] /\ UNCHANGED <<file, out>>
    BY <1>9 DEF TakeOut
  <2>2. proj' \in [Task -> Projection] /\ \A t \in Task : proj'[t] = proj[t] \/ proj'[t] = cache
    BY <2>1
  <2>3. \A t \in Task : Exact(proj'[t])
    BY <2>2
  <2> QED BY <2>1, <2>2, <2>3, FreshIsExact, HeldKept
<1>10. ASSUME NEW c \in Task, Sync(c) PROVE Held'
  <2>1. /\ UNCHANGED <<file, cache, out>>
        /\ proj' = [proj EXCEPT ![c] = IF row = "absent" THEN @ ELSE Synced(@)]
    BY <1>10 DEF Sync
  <2>2. Synced(proj[c]) \in Projection /\ Exact(Synced(proj[c]))
    BY SyncedIsExact
  <2>3. /\ proj' \in [Task -> Projection]
        /\ \A t \in Task : proj'[t] = proj[t] \/ proj'[t] = Synced(proj[c])
    BY <2>1, <2>2
  <2>4. \A t \in Task : Exact(proj'[t])
    BY <2>2, <2>3
  <2> QED BY <2>1, <2>3, <2>4, HeldKept
<1>11. ASSUME NEW c \in Client, Insert(c) PROVE Held'
  <2>1. cache' = proj[c] /\ proj' = [proj EXCEPT ![c] = Fresh] /\ UNCHANGED file
    BY <1>11 DEF Insert
  <2>2. /\ proj' \in [Task -> Projection]
        /\ \A t \in Task : proj'[t] = proj[t] \/ proj'[t] = Fresh
    BY <2>1, FreshIsExact
  <2>3. \A t \in Task : Exact(proj'[t])
    BY <2>2, FreshIsExact
  <2>5. cache' \in Projection /\ Exact(cache')
    BY <2>1
  <2>4. out' \in [Client -> SUBSET Nat] /\ \A d \in Client : out'[d] \subseteq Bodies
    <3>1. out' = [out EXCEPT ![c] = SliceFrom(proj[c], cursor[c])]
      BY <1>11 DEF Insert
    <3>2. proj[c].rendered \subseteq Bodies /\ proj[c].rendered \subseteq Nat
      BY DEF Exact, RenderedUpTo, Rendered, Projection
    <3>3. SliceFrom(proj[c], cursor[c]) \subseteq proj[c].rendered
      BY DEF SliceFrom
    <3> HIDE DEF SliceFrom
    <3> QED BY <3>1, <3>2, <3>3
  <2> QED BY <2>1, <2>2, <2>3, <2>4, <2>5, HeldKept
<1>12. ASSUME NEW c \in Client, Send(c) PROVE Held'
  <2>1. UNCHANGED <<file, cache, proj>>
    BY <1>12 DEF Send
  <2>2. PICK q \in out[c] : out' = out \/ out' = [out EXCEPT ![c] = @ \ {q}]
    BY <1>12 DEF Send
  <2>3. out' \in [Client -> SUBSET Nat] /\ \A d \in Client : out'[d] \subseteq out[d]
    BY <2>2
  <2> QED BY <2>1, <2>3, HeldKept
<1>13. ASSUME NEW c \in Client, SendDone(c) PROVE Held'
  <2>1. UNCHANGED <<file, cache, proj, out>>
    BY <1>13 DEF SendDone
  <2> QED BY <2>1, HeldKept
<1>14. ASSUME NEW c \in Client, Status(c) PROVE Held'
  <2>1. UNCHANGED <<file, cache>>
    BY <1>14 DEF Status
  <2>2. \/ UNCHANGED <<proj, out>>
        \/ proj' = [proj EXCEPT ![c] = Fresh] /\ out' = [out EXCEPT ![c] = {}]
    BY <1>14 DEF Status
  <2> QED BY <2>1, <2>2, LetGo
<1>15. ASSUME NEW c \in Client, Wake(c) PROVE Held'
  <2>1. UNCHANGED <<file, cache>>
    BY <1>15 DEF Wake
  <2>2. \/ UNCHANGED <<proj, out>>
        \/ proj' = [proj EXCEPT ![c] = Fresh] /\ out' = [out EXCEPT ![c] = {}]
    BY <1>15 DEF Wake
  <2> QED BY <2>1, <2>2, LetGo
<1>16. ASSUME NEW c \in Client, Exit(c) PROVE Held'
  <2>1. /\ UNCHANGED <<file, cache>> /\ proj' = [proj EXCEPT ![c] = Fresh]
        /\ out' = [out EXCEPT ![c] = {}]
    BY <1>16 DEF Exit
  <2> QED BY <2>1, LetGo
<1>17. ASSUME NEW c \in Client, Drop(c) PROVE Held'
  <2>1. /\ UNCHANGED <<file, cache>> /\ proj' = [proj EXCEPT ![c] = Fresh]
        /\ out' = [out EXCEPT ![c] = {}]
    BY <1>17 DEF Drop
  <2> QED BY <2>1, LetGo
<1>18. ASSUME NEW r \in Reader, Request(r) PROVE Held'
  <2>1. cache' = Fresh /\ proj' = [proj EXCEPT ![r] = cache] /\ UNCHANGED <<file, out>>
    BY <1>18 DEF Request
  <2>2. proj' \in [Task -> Projection] /\ \A t \in Task : proj'[t] = proj[t] \/ proj'[t] = cache
    BY <2>1
  <2>3. \A t \in Task : Exact(proj'[t])
    BY <2>2
  <2> QED BY <2>1, <2>2, <2>3, FreshIsExact, HeldKept
<1>19. ASSUME NEW r \in Reader, Respond(r) PROVE Held'
  <2>1. cache' = proj[r] /\ proj' = [proj EXCEPT ![r] = Fresh] /\ UNCHANGED file
    BY <1>19 DEF Respond
  <2>2. /\ proj' \in [Task -> Projection]
        /\ \A t \in Task : proj'[t] = proj[t] \/ proj'[t] = Fresh
    BY <2>1, FreshIsExact
  <2>3. \A t \in Task : Exact(proj'[t])
    BY <2>2, FreshIsExact
  <2>5. cache' \in Projection /\ Exact(cache')
    BY <2>1
  <2>4. out' \in [Client -> SUBSET Nat] /\ \A c \in Client : out'[c] \subseteq Bodies
    BY <1>19 DEF Respond
  <2> QED BY <2>1, <2>2, <2>3, <2>4, <2>5, HeldKept
<1>20. CASE UNCHANGED vars
  <2>1. UNCHANGED <<file, cache, proj, out>>
    BY <1>20 DEF vars
  <2> QED BY <2>1, HeldKept

<1> QED BY <1>1, <1>2, <1>3, <1>4, <1>5, <1>6, <1>7, <1>8, <1>9, <1>10, <1>11, <1>12, <1>13,
           <1>14, <1>15, <1>16, <1>17, <1>18, <1>19, <1>20 DEF Next, SocketStep, Task

-----------------------------------------------------------------------------
(* The theorems. *)

LEMMA Invariance == Spec => []Inv
<1>1. Inv /\ [Next]_vars => Inv'
  BY TypesNext, HeldNext DEF Inv
<1> QED BY <1>1, InvInit, PTL DEF Spec

\* TypeOK: every variable stays in its range; a projection never runs ahead of the log.
THEOREM StreamTypes == Spec => []TypeOK
<1>1. Inv => TypeOK
  <2> SUFFICES ASSUME Inv PROVE TypeOK
    OBVIOUS
  <2>1. ASSUME NEW p \in Projection, Exact(p) PROVE IsProjection(p)
    BY <2>1 DEF Inv, Held, Projection, Exact, IsProjection, RenderedUpTo, Rendered
  <2> QED BY <2>1 DEF Inv, Types, Held, TypeOK
<1> QED BY <1>1, Invariance, PTL

\* transcript.rs: whatever the writers, the callers and the evictions did in between, every
\* projection holds the rendered lines that are complete at its offset, and no other.
THEOREM ProjectionsAreExact == Spec => []ProjectionEquivalent
<1>1. Inv => ProjectionEquivalent
  BY DEF Inv, Held, ProjectionEquivalent, Exact
<1> QED BY <1>1, Invariance, PTL

-----------------------------------------------------------------------------
(* Places in a finite set of numbers. *)

Place(S, q) == Cardinality({r \in S : r <= q})

\* An element of a set comes after fewer than there are.
LEMMA PlaceRange ==
    ASSUME NEW S \in SUBSET Nat, IsFiniteSet(S), NEW q \in S
    PROVE  Place(S, q) \in 1..Cardinality(S)
<1>1. {r \in S : r <= q} \in SUBSET S
  OBVIOUS
<1>2. {r \in S : r <= q} # {}
  OBVIOUS
<1> QED BY <1>1, <1>2, FS_Subset, FS_EmptySet, FS_CardinalityType DEF Place

\* The places are in the order of the elements.
LEMMA PlaceMonotone ==
    ASSUME NEW S \in SUBSET Nat, IsFiniteSet(S), NEW q \in S, NEW r \in S, q < r
    PROVE  Place(S, q) < Place(S, r)
<1> DEFINE A == {x \in S : x <= q}
<1> DEFINE B == {x \in S : x <= r}
<1>1. A \in SUBSET B /\ r \in B /\ r \notin A /\ B \in SUBSET S
  <2>1. q \in Nat /\ r \in Nat /\ ~(r <= q)
    OBVIOUS
  <2>2. \A x \in S : x <= q => x <= r
    <3>1. \A x \in Nat : x <= q => x <= r
      BY <2>1
    <3> QED BY <3>1
  <2>3. A \in SUBSET B
    BY ONLY <2>2 DEF A, B
  <2>4. r \in B /\ B \in SUBSET S
    BY <2>1
  <2>5. r \notin A
    BY <2>1
  <2> QED BY <2>3, <2>4, <2>5
<1>2. IsFiniteSet(B)
  BY <1>1, FS_Subset
<1>3. /\ IsFiniteSet(A) /\ Cardinality(A) <= Cardinality(B)
      /\ Cardinality(B) = Cardinality(A) => B = A
  BY <1>1, <1>2, FS_Subset
<1>4. Cardinality(A) \in Nat /\ Cardinality(B) \in Nat
  BY <1>2, <1>3, FS_CardinalityType
<1>5. B # A
  BY <1>1
<1> QED BY <1>3, <1>4, <1>5 DEF Place

\* No two elements have the same place.
LEMMA PlaceUnique ==
    ASSUME NEW S \in SUBSET Nat, IsFiniteSet(S), NEW q \in S, NEW r \in S,
           Place(S, q) = Place(S, r)
    PROVE  q = r
<1>1. Place(S, q) \in Nat /\ Place(S, r) \in Nat
  BY PlaceRange
<1>2. ~(q < r) /\ ~(r < q)
  BY <1>1, PlaceMonotone
<1> QED BY <1>2

\* Every place is taken.
LEMMA PlaceOnto ==
    ASSUME NEW S \in SUBSET Nat, IsFiniteSet(S), NEW k \in 1..Cardinality(S)
    PROVE  \E q \in S : Place(S, q) = k
<1> DEFINE n == Cardinality(S)
<1> DEFINE T == (1..n) \ {k}
<1> SUFFICES ASSUME \A q \in S : Place(S, q) # k PROVE FALSE
  OBVIOUS
<1>1. n \in Nat
  BY FS_CardinalityType
<1>2. IsFiniteSet(1..n) /\ Cardinality(1..n) = n
  BY <1>1, FS_Interval
<1>3. IsFiniteSet(T) /\ Cardinality(T) = n - 1
  BY <1>2, FS_RemoveElement
<1> DEFINE f == [q \in S |-> Place(S, q)]
<1>4. f \in [S -> T]
  BY PlaceRange
<1>5. Cardinality(T) < Cardinality(S)
  BY <1>1, <1>3
<1>6. PICK x \in S, y \in S : x # y /\ f[x] = f[y]
  <2> HIDE DEF f, T, n
  <2> QED BY <1>3, <1>4, <1>5, FS_PigeonHole
<1>7. Place(S, x) = Place(S, y)
  BY <1>6
<1> QED BY <1>6, <1>7, PlaceUnique

\* As many elements as have one of the first k places are not more than k ...
LEMMA PlacesBelow ==
    ASSUME NEW S \in SUBSET Nat, IsFiniteSet(S), NEW T \in SUBSET S, NEW k \in Nat,
           \A q \in T : Place(S, q) <= k
    PROVE  Cardinality(T) <= k
<1>1. IsFiniteSet(T) /\ Cardinality(T) \in Nat
  BY FS_Subset, FS_CardinalityType
<1>2. IsFiniteSet(1..k) /\ Cardinality(1..k) = k
  BY FS_Interval
<1> SUFFICES ASSUME k < Cardinality(T) PROVE FALSE
  BY <1>1
<1> DEFINE f == [q \in T |-> Place(S, q)]
<1>3. f \in [T -> 1..k]
  <2>1. \A q \in T : Place(S, q) \in 1..Cardinality(S)
    BY PlaceRange
  <2> QED BY <2>1
<1>4. PICK x \in T, y \in T : x # y /\ f[x] = f[y]
  <2> HIDE DEF f
  <2> QED BY <1>1, <1>2, <1>3, FS_PigeonHole
<1>5. Place(S, x) = Place(S, y)
  BY <1>4
<1> QED BY <1>4, <1>5, PlaceUnique

\* ... and, if there are k, not fewer.
LEMMA PlacesAbove ==
    ASSUME NEW S \in SUBSET Nat, IsFiniteSet(S), NEW k \in Nat, k <= Cardinality(S),
           NEW U, IsFiniteSet(U), \A q \in S : Place(S, q) <= k => q \in U
    PROVE  k <= Cardinality(U)
<1> DEFINE T == {q \in S : Place(S, q) <= k}
<1>1. T \in SUBSET U /\ T \in SUBSET S
  OBVIOUS
<1>2. IsFiniteSet(T) /\ Cardinality(T) <= Cardinality(U)
  BY <1>1, FS_Subset
<1>3. Cardinality(T) \in Nat /\ Cardinality(U) \in Nat /\ Cardinality(S) \in Nat
  BY <1>2, FS_CardinalityType
<1> DEFINE g == [i \in 1..k |-> CHOOSE q \in S : Place(S, q) = i]
<1>4. \A i \in 1..k : g[i] \in S /\ Place(S, g[i]) = i
  <2> TAKE i \in 1..k
  <2>1. \E q \in S : Place(S, q) = i
    <3>1. i \in 1..Cardinality(S)
      BY <1>3
    <3> QED BY <3>1, PlaceOnto
  <2> QED BY <2>1
<1> HIDE DEF g
<1>5. \A i \in 1..k : g[i] \in T
  BY <1>4
<1>6. IsFiniteSet(1..k) /\ Cardinality(1..k) = k
  BY FS_Interval
<1> SUFFICES ASSUME Cardinality(T) < k PROVE FALSE
  BY <1>2, <1>3
<1> DEFINE h == [i \in 1..k |-> g[i]]
<1>7. h \in [1..k -> T]
  BY <1>5
<1>8. PICK i \in 1..k, j \in 1..k : i # j /\ h[i] = h[j]
  <2> HIDE DEF h, T
  <2> QED BY <1>2, <1>6, <1>7, FS_PigeonHole
<1>9. g[i] = g[j]
  BY <1>8
<1> QED BY <1>4, <1>8, <1>9

-----------------------------------------------------------------------------
(* The invariant. *)

\* The seq of a line: its place among the rendered lines of the log.
Pos(q) == Place(Rendered, q)

\* The lines a client received, over all its connections.
Sent(c) == {recv[c][i][1] : i \in 1..Len(recv[c])}

\* The lines the log had at an offset, from a cursor on.
ToSend(n, k) == {q \in RenderedUpTo(n) : Pos(q) > k}

\* What is true of a client: its cursor and the last seq it saw are in the log, every line up
\* to the last seq was sent to it; that is the cursor of its connection, or one more while a
\* line goes out in frames; a connection sends what the log had when it was read, and in the
\* last read everything the turn had left.
Told(c) ==
    /\ cursor[c] <= Cardinality(Rendered) /\ last[c] <= Cardinality(Rendered)
    /\ mark[c] <= Cardinality(Rendered)
    /\ \A q \in Rendered : Pos(q) <= last[c] => q \in Sent(c)
    /\ cpc[c] # "send" \/ out[c] = {} => fr[c] = 0
    /\ cpc[c] # "off" => last[c] = IF fr[c] = 0 THEN cursor[c] ELSE cursor[c] + 1
    /\ cpc[c] = "send" =>
           \E n \in 0..Len(file) :
               /\ out[c] = ToSend(n, cursor[c])
               /\ phase[c] = "tail" /\ row # "absent" => mark[c] <= Cardinality(RenderedUpTo(n))
    /\ cpc[c] = "insert" /\ phase[c] = "tail" /\ row # "absent" =>
           mark[c] <= Cardinality(RenderedUpTo(proj[c].off))
    /\ cpc[c] = "exit" /\ row # "absent" => mark[c] <= cursor[c]

Delivered == endmark <= Cardinality(Rendered) /\ \A c \in Client : Told(c)

-----------------------------------------------------------------------------
(* The log. *)

\* The rendered lines are those that are complete at the end of the log.
LEMMA RenderedFacts ==
    file \in Seq(Body \cup {"nl"}) =>
        /\ Rendered \in SUBSET Nat /\ IsFiniteSet(Rendered) /\ Cardinality(Rendered) \in Nat
        /\ Len(file) \in Nat /\ \A q \in Rendered : q + 1 <= Len(file)
        /\ RenderedUpTo(Len(file)) = Rendered
<1> SUFFICES ASSUME file \in Seq(Body \cup {"nl"})
             PROVE  /\ Rendered \in SUBSET Nat /\ IsFiniteSet(Rendered)
                    /\ Cardinality(Rendered) \in Nat
                    /\ Len(file) \in Nat /\ \A q \in Rendered : q + 1 <= Len(file)
                    /\ RenderedUpTo(Len(file)) = Rendered
  OBVIOUS
<1>1. Len(file) \in Nat
  OBVIOUS
<1>2. Rendered \subseteq 1..Len(file) /\ \A q \in Rendered : q + 1 <= Len(file)
  <2>1. \A q \in Rendered : q \in 1..Len(file) /\ q < Len(file)
    BY DEF Rendered, IsRendered, IsLine, Bodies
  <2> QED BY <1>1, <2>1
<1>3. IsFiniteSet(Rendered) /\ Cardinality(Rendered) \in Nat
  <2>1. IsFiniteSet(1..Len(file))
    BY <1>1, FS_Interval
  <2>2. Rendered \in SUBSET (1..Len(file))
    BY <1>2
  <2>3. IsFiniteSet(Rendered)
    BY <2>1, <2>2, FS_Subset
  <2> QED BY <2>3, FS_CardinalityType
<1>4. RenderedUpTo(Len(file)) = Rendered
  BY <1>2, Zenon DEF RenderedUpTo
<1>5. Rendered \in SUBSET Nat
  BY <1>1, <1>2
<1> QED BY <1>1, <1>2, <1>3, <1>4, <1>5

LEMMA RenderedFactsNext ==
    (file \in Seq(Body \cup {"nl"}))' =>
        /\ (Rendered \in SUBSET Nat)' /\ IsFiniteSet(Rendered)' /\ (Cardinality(Rendered) \in Nat)'
BY RenderedFacts, PTL

\* The lines that come into the log come after those that are there, which keep their places.
LEMMA NewLinesComeLater ==
    ASSUME file \in Seq(Body \cup {"nl"}), NEW s \in Seq(Body \cup {"nl"}), file' = file \o s
    PROVE  /\ Rendered \subseteq Rendered' /\ Len(file) <= Len(file')
           /\ Cardinality(Rendered) <= Cardinality(Rendered')
           /\ \A q \in Rendered : Pos(q)' = Pos(q)
           /\ \A q \in Rendered' \ Rendered : Pos(q)' > Cardinality(Rendered)
           /\ \A n \in 0..Len(file) : RenderedUpTo(n)' = RenderedUpTo(n)
<1>1. /\ file' \in Seq(Body \cup {"nl"}) /\ Len(file) <= Len(file')
      /\ \A n \in Nat : n <= Len(file) => RenderedUpTo(n)' = RenderedUpTo(n)
  BY AppendKeepsLines
<1>2. /\ Rendered \in SUBSET Nat /\ IsFiniteSet(Rendered) /\ Cardinality(Rendered) \in Nat
      /\ Len(file) \in Nat /\ \A q \in Rendered : q + 1 <= Len(file)
      /\ RenderedUpTo(Len(file)) = Rendered
  BY RenderedFacts
<1>3. Rendered' \in SUBSET Nat /\ IsFiniteSet(Rendered') /\ Cardinality(Rendered') \in Nat
  BY <1>1, RenderedFactsNext
<1>4. {q \in Rendered' : q + 1 <= Len(file)} = Rendered
  <2>1. PICK n \in Nat : n = Len(file)
    BY <1>2
  <2>2. RenderedUpTo(n)' = RenderedUpTo(n)
    BY <1>1, <2>1
  <2>3. RenderedUpTo(n)' = {q \in Rendered' : q + 1 <= n}
    BY DEF RenderedUpTo
  <2> QED BY <1>2, <2>1, <2>2, <2>3
<1>5. Rendered \subseteq Rendered'
  BY <1>4
<1>6. Cardinality(Rendered) <= Cardinality(Rendered')
  BY <1>3, <1>5, FS_Subset
<1>7. ASSUME NEW q \in Rendered PROVE Pos(q)' = Pos(q)
  <2>1. {r \in Rendered' : r <= q} = {r \in Rendered : r <= q}
    <3>1. ASSUME NEW r \in Rendered', r <= q PROVE r \in Rendered
      <4>1. r \in Nat /\ q \in Nat /\ q + 1 <= Len(file)
        BY <1>2, <1>3
      <4>2. r + 1 <= Len(file)
        BY <1>2, <3>1, <4>1
      <4> QED BY <1>4, <4>2
    <3> QED BY <1>5, <3>1
  <2> QED BY <2>1 DEF Pos, Place
<1>8. ASSUME NEW q \in Rendered' \ Rendered PROVE Pos(q)' > Cardinality(Rendered)
  <2> DEFINE A == {r \in Rendered' : r <= q}
  <2>1. q \in Nat /\ ~(q + 1 <= Len(file))
    BY <1>3, <1>4
  <2>2. Rendered \subseteq A
    <3>1. \A r \in Rendered : r \in Nat /\ r <= q
      BY <1>2, <2>1
    <3> QED BY <1>5, <3>1
  <2>3. q \in A /\ q \notin Rendered /\ A \in SUBSET Rendered'
    BY <2>1
  <2>4. IsFiniteSet(A) /\ Cardinality(A) \in Nat
    BY <1>3, <2>3, FS_Subset, FS_CardinalityType
  <2>5. Cardinality(Rendered) <= Cardinality(A) /\ (Cardinality(A) = Cardinality(Rendered) => A = Rendered)
    BY <2>2, <2>4, FS_Subset
  <2>6. Pos(q)' = Cardinality(A)
    BY DEF Pos, Place
  <2> QED BY <1>2, <2>3, <2>4, <2>5, <2>6
<1>9. \A n \in 0..Len(file) : RenderedUpTo(n)' = RenderedUpTo(n)
  BY <1>1, <1>2
<1> QED BY <1>1, <1>5, <1>6, <1>7, <1>8, <1>9

\* What is read of the log is the same while the log is.
LEMMA SameLog ==
    ASSUME UNCHANGED file
    PROVE  /\ Rendered' = Rendered /\ Len(file') = Len(file)
           /\ \A n : RenderedUpTo(n)' = RenderedUpTo(n)
           /\ \A q : Pos(q)' = Pos(q)
           /\ \A n, k : ToSend(n, k)' = ToSend(n, k)
<1>1. Rendered' = Rendered
  BY DEF Rendered, IsRendered, IsLine, Bodies
<1>2. \A n : RenderedUpTo(n)' = RenderedUpTo(n)
  BY <1>1 DEF RenderedUpTo
<1>3. \A q : Pos(q)' = Pos(q)
  BY <1>1 DEF Pos
<1>4. \A n, k : ToSend(n, k)' = ToSend(n, k)
  BY <1>2, <1>3 DEF ToSend
<1> QED BY <1>1, <1>2, <1>3, <1>4

\* Below an offset the places are those of the whole log.
LEMMA PlaceUpTo ==
    ASSUME file \in Seq(Body \cup {"nl"}), NEW n \in Nat, NEW q \in RenderedUpTo(n)
    PROVE  Place(RenderedUpTo(n), q) = Pos(q)
<1>1. Rendered \in SUBSET Nat
  BY RenderedFacts
<1>2. ASSUME NEW r \in Rendered, r <= q PROVE r \in RenderedUpTo(n)
  <2>1. q \in Nat /\ r \in Nat /\ q + 1 <= n
    BY <1>1 DEF RenderedUpTo
  <2>2. r + 1 <= n
    BY <1>2, <2>1
  <2> QED BY <2>2 DEF RenderedUpTo
<1>3. {r \in RenderedUpTo(n) : r <= q} = {r \in Rendered : r <= q}
  BY <1>2 DEF RenderedUpTo
<1> QED BY <1>3 DEF Pos, Place

\* The first line of a read is the one after the cursor, and without it the read is that of
\* the next cursor.
LEMMA FirstToSend ==
    ASSUME file \in Seq(Body \cup {"nl"}), NEW n \in Nat, NEW k \in Nat,
           NEW q \in ToSend(n, k), \A r \in ToSend(n, k) : q <= r
    PROVE  /\ q \in Rendered /\ Pos(q) = k + 1 /\ k + 1 <= Cardinality(Rendered)
           /\ ToSend(n, k) \ {q} = ToSend(n, k + 1)
           /\ \A r \in Rendered : Pos(r) = k + 1 => r = q
<1>1. /\ Rendered \in SUBSET Nat /\ IsFiniteSet(Rendered) /\ Cardinality(Rendered) \in Nat
  BY RenderedFacts
<1>2. q \in Rendered /\ q + 1 <= n /\ Pos(q) > k
  BY DEF ToSend, RenderedUpTo
<1>3. \A r \in Rendered : Pos(r) \in 1..Cardinality(Rendered)
  BY <1>1, PlaceRange DEF Pos
<1>4. k + 1 \in 1..Cardinality(Rendered)
  BY <1>1, <1>2, <1>3
<1>5. PICK x \in Rendered : Pos(x) = k + 1
  BY <1>1, <1>4, PlaceOnto DEF Pos
<1>6. \A r \in Rendered : Pos(r) = k + 1 => r = x
  BY <1>1, <1>5, PlaceUnique DEF Pos
<1>7. x = q
  <2>1. x \in Nat /\ q \in Nat
    BY <1>1, <1>2
  <2>2. ~(q < x)
    <3>1. q < x => Pos(q) < Pos(x)
      BY <1>1, <1>2, PlaceMonotone DEF Pos
    <3>2. Pos(q) \in Nat
      BY <1>2, <1>3
    <3> QED BY <1>2, <1>5, <3>1, <3>2
  <2>3. ASSUME x < q PROVE FALSE
    <3>1. x + 1 <= n
      BY <1>2, <2>1, <2>3
    <3>2. Pos(x) > k
      BY <1>5
    <3>3. x \in ToSend(n, k)
      BY <3>1, <3>2 DEF ToSend, RenderedUpTo
    <3>4. q <= x
      BY <3>3
    <3> QED BY <2>1, <2>3, <3>4
  <2> QED BY <2>1, <2>2, <2>3
<1>8. ToSend(n, k) \ {q} = ToSend(n, k + 1)
  <2>1. ASSUME NEW r \in RenderedUpTo(n)
        PROVE  Pos(r) > k /\ r # q <=> Pos(r) > k + 1
    <3>1. Pos(r) \in Nat
      BY <1>3 DEF RenderedUpTo
    <3>2. Pos(r) = k + 1 <=> r = q
      BY <1>5, <1>6, <1>7 DEF RenderedUpTo
    <3> QED BY <3>1, <3>2
  <2> QED BY <2>1 DEF ToSend
<1> QED BY <1>2, <1>4, <1>5, <1>6, <1>7, <1>8

-----------------------------------------------------------------------------
(* The steps. *)

\* What is true of a client stays true while the log and all that is its own stay.
LEMMA ToldKept ==
    ASSUME NEW d \in Client, Told(d), UNCHANGED file, row' # "absent" => row # "absent",
           cpc'[d] = cpc[d], phase'[d] = phase[d], proj'[d] = proj[d], cursor'[d] = cursor[d],
           out'[d] = out[d], fr'[d] = fr[d], mark'[d] = mark[d], recv'[d] = recv[d],
           last'[d] = last[d]
    PROVE  Told(d)'
<1>1. /\ Rendered' = Rendered /\ Len(file') = Len(file)
      /\ \A n : RenderedUpTo(n)' = RenderedUpTo(n)
      /\ \A q : Pos(q)' = Pos(q)
      /\ \A n, k : ToSend(n, k)' = ToSend(n, k)
  BY SameLog
<1>2. Sent(d)' = Sent(d)
  BY DEF Sent
<1> QED BY <1>1, <1>2 DEF Told

\* A longer log changes nothing for anyone.
LEMMA LogGrows ==
    ASSUME Inv, Delivered, NEW s \in Seq(Body \cup {"nl"}), file' = file \o s,
           UNCHANGED <<row, endmark, connVars, recv, last>>
    PROVE  Delivered'
<1>1. /\ Rendered \subseteq Rendered' /\ Len(file) <= Len(file')
      /\ Cardinality(Rendered) <= Cardinality(Rendered')
      /\ \A q \in Rendered : Pos(q)' = Pos(q)
      /\ \A q \in Rendered' \ Rendered : Pos(q)' > Cardinality(Rendered)
      /\ \A n \in 0..Len(file) : RenderedUpTo(n)' = RenderedUpTo(n)
  BY NewLinesComeLater DEF Inv, Held
<1>2. /\ Cardinality(Rendered) \in Nat /\ Cardinality(Rendered') \in Nat
      /\ Len(file) \in Nat /\ Len(file') \in Nat
      /\ \A q \in Rendered' : Pos(q)' \in Nat
  <2>1. file' \in Seq(Body \cup {"nl"})
    BY DEF Inv, Held
  <2>2. /\ (Rendered \in SUBSET Nat)' /\ IsFiniteSet(Rendered)' /\ (Cardinality(Rendered) \in Nat)'
    BY <2>1, RenderedFactsNext
  <2>3. \A q \in Rendered' : Place(Rendered', q) \in 1..Cardinality(Rendered')
    BY <2>2, PlaceRange
  <2>4. \A q \in Rendered' : Pos(q)' \in Nat
    BY <2>2, <2>3 DEF Pos
  <2> QED BY <2>1, <2>2, <2>4, RenderedFacts DEF Inv, Held
<1>3. endmark' <= Cardinality(Rendered')
  BY <1>1, <1>2 DEF Delivered, Inv, Types
<1>4. ASSUME NEW d \in Client PROVE Told(d)'
  <2>1. Told(d)
    BY DEF Delivered
  <2>2. /\ cursor[d] \in Nat /\ last[d] \in Nat /\ mark[d] \in Nat
        /\ proj[d].off \in 0..Len(file)
    BY <1>2 DEF Inv, Types, Held, Exact, Projection, Task
  <2>3. /\ cursor[d] <= Cardinality(Rendered') /\ last[d] <= Cardinality(Rendered')
        /\ mark[d] <= Cardinality(Rendered')
    BY <1>1, <1>2, <2>1, <2>2 DEF Told
  <2>4. Sent(d)' = Sent(d)
    BY DEF Sent
  <2>5. ASSUME NEW q \in Rendered', Pos(q)' <= last[d] PROVE q \in Sent(d)
    <3>1. last[d] <= Cardinality(Rendered)
      BY <2>1 DEF Told
    <3>2. q \in Rendered
      BY <1>1, <1>2, <2>2, <2>5, <3>1
    <3>3. Pos(q) <= last[d]
      BY <1>1, <2>5, <3>2
    <3> QED BY <2>1, <3>2, <3>3 DEF Told
  <2>6. ASSUME NEW n \in 0..Len(file), NEW k PROVE ToSend(n, k)' = ToSend(n, k)
    <3>1. RenderedUpTo(n)' = RenderedUpTo(n) /\ RenderedUpTo(n) \subseteq Rendered
      BY <1>1 DEF RenderedUpTo
    <3>2. \A q \in RenderedUpTo(n) : Pos(q)' = Pos(q)
      BY <1>1, <3>1
    <3> QED BY <3>1, <3>2 DEF ToSend
  <2>7. \A n \in 0..Len(file) : n \in 0..Len(file')
    BY <1>1, <1>2
  <2>8. ASSUME cpc[d] = "send"
        PROVE  \E n \in 0..Len(file') :
                  /\ out[d] = ToSend(n, cursor[d])'
                  /\ phase[d] = "tail" /\ row # "absent" => mark[d] <= Cardinality(RenderedUpTo(n)')
    <3>1. PICK n \in 0..Len(file) :
              /\ out[d] = ToSend(n, cursor[d])
              /\ phase[d] = "tail" /\ row # "absent" => mark[d] <= Cardinality(RenderedUpTo(n))
      BY <2>1, <2>8 DEF Told
    <3>2. ToSend(n, cursor[d])' = ToSend(n, cursor[d]) /\ RenderedUpTo(n)' = RenderedUpTo(n)
      <4>1. cursor'[d] = cursor[d]
        BY DEF connVars
      <4> QED BY <1>1, <2>6, <4>1
    <3> QED BY <2>7, <3>1, <3>2
  <2>9. RenderedUpTo(proj[d].off)' = RenderedUpTo(proj[d].off)
    <3>1. proj' = proj
      BY DEF connVars
    <3> QED BY <1>1, <2>2, <3>1
  <2> QED BY <2>1, <2>3, <2>4, <2>5, <2>8, <2>9 DEF Told, connVars
<1> QED BY <1>3, <1>4 DEF Delivered

-----------------------------------------------------------------------------
(* One client acts: the others keep what they have. *)

\* What a client has of its own.
Own(d) == <<cpc[d], phase[d], proj[d], cursor[d], out[d], fr[d], mark[d], recv[d], last[d]>>

LEMMA OneActs ==
    ASSUME Delivered, NEW c \in Client, UNCHANGED <<file, row, endmark>>,
           \A d \in Client \ {c} : UNCHANGED Own(d), Told(c)'
    PROVE  Delivered'
<1>1. Rendered' = Rendered
  BY SameLog
<1>2. ASSUME NEW d \in Client \ {c} PROVE Told(d)'
  <2>1. Told(d) /\ UNCHANGED Own(d)
    BY DEF Delivered
  <2> QED BY <2>1, ToldKept DEF Own
<1> QED BY <1>1, <1>2 DEF Delivered

\* A connection that ends leaves the client with what it received.
LEMMA HangsUp ==
    ASSUME Inv, NEW c \in Client, Told(c), UNCHANGED <<file, row, recv>>, Hangup(c),
           last'[c] = last[c]
    PROVE  Told(c)'
<1>1. /\ Rendered' = Rendered /\ \A q : Pos(q)' = Pos(q)
  BY SameLog
<1>2. /\ cpc'[c] = "off" /\ fr'[c] = 0 /\ mark'[c] = 0 /\ cursor'[c] = cursor[c]
  BY DEF Hangup, Goto, Inv, Types, Task
<1>3. Cardinality(Rendered) \in Nat
  BY RenderedFacts DEF Inv, Held
<1>4. Sent(c)' = Sent(c)
  BY DEF Sent
<1> QED BY <1>1, <1>2, <1>3, <1>4 DEF Told

-----------------------------------------------------------------------------
LEMMA DeliveredInit == Init => Delivered
<1> SUFFICES ASSUME Init PROVE Delivered
  OBVIOUS
<1>1. file \in Seq(Body \cup {"nl"})
  BY DEF Init
<1>2. Rendered \in SUBSET Nat /\ IsFiniteSet(Rendered) /\ Cardinality(Rendered) \in Nat
  BY <1>1, RenderedFacts
<1>3. ASSUME NEW c \in Client PROVE Told(c)
  <2>1. /\ cursor[c] = 0 /\ last[c] = 0 /\ mark[c] = 0 /\ fr[c] = 0 /\ cpc[c] = "off"
    BY DEF Init, Task
  <2>2. \A q \in Rendered : Pos(q) \in 1..Cardinality(Rendered)
    BY <1>2, PlaceRange DEF Pos
  <2>3. \A q \in Rendered : ~(Pos(q) <= 0)
    BY <2>2
  <2> QED BY <1>2, <2>1, <2>3 DEF Told
<1> QED BY <1>2, <1>3 DEF Delivered, Init

LEMMA DeliveredNext ==
    ASSUME Inv, Delivered, [Next]_vars
    PROVE  Delivered'
<1> USE DEF logVars, rowVars, connVars
<1>0. /\ Rendered \in SUBSET Nat /\ IsFiniteSet(Rendered) /\ Cardinality(Rendered) \in Nat
      /\ Len(file) \in Nat /\ RenderedUpTo(Len(file)) = Rendered
      /\ file \in Seq(Body \cup {"nl"})
  BY RenderedFacts DEF Inv, Held
<1>1. CASE BridgeWrites
  <2>1. PICK b \in Body : file' = file \o <<b, "nl">>
    BY <1>1 DEF BridgeWrites
  <2>2. <<b, "nl">> \in Seq(Body \cup {"nl"})
    BY DEF Body
  <2>3. UNCHANGED <<row, endmark, connVars, recv, last>>
    BY <1>1 DEF BridgeWrites
  <2> QED BY <2>1, <2>2, <2>3, LogGrows
<1>2. CASE EngineWritesLine
  <2>1. file' = file \o <<"one">>
    BY <1>0, <1>2 DEF EngineWritesLine
  <2>2. <<"one">> \in Seq(Body \cup {"nl"})
    BY DEF Body, Frames
  <2>3. UNCHANGED <<row, endmark, connVars, recv, last>>
    BY <1>2 DEF EngineWritesLine
  <2> QED BY <2>1, <2>2, <2>3, LogGrows
<1>3. CASE EngineWritesNewline
  <2>1. file' = file \o <<"nl">>
    BY <1>0, <1>3 DEF EngineWritesNewline
  <2>2. <<"nl">> \in Seq(Body \cup {"nl"})
    BY DEF Body
  <2>3. UNCHANGED <<row, endmark, connVars, recv, last>>
    BY <1>3 DEF EngineWritesNewline
  <2> QED BY <2>1, <2>2, <2>3, LogGrows
<1>4. CASE TurnEnds \/ Resumed \/ Delete \/ Evict \/ UNCHANGED vars
  <2>1. UNCHANGED <<file, connVars, recv, last>> /\ (row' # "absent" => row # "absent")
    BY <1>4 DEF TurnEnds, Resumed, Delete, Evict, vars
  <2>2. Rendered' = Rendered
    BY <2>1, SameLog
  <2>3. endmark' = endmark \/ endmark' = Cardinality(Rendered)
    BY <1>4 DEF TurnEnds, Resumed, Delete, Evict, vars
  <2>4. endmark' <= Cardinality(Rendered')
    BY <1>0, <2>2, <2>3 DEF Delivered
  <2>5. ASSUME NEW d \in Client PROVE Told(d)'
    BY <2>1, ToldKept DEF Delivered
  <2> QED BY <2>4, <2>5 DEF Delivered
<1>5. ASSUME NEW r \in Reader, Request(r) \/ Sync(r) \/ Respond(r) PROVE Delivered'
  <2>1. /\ UNCHANGED <<file, row, endmark, phase, cursor, out, fr, mark, recv, last>>
        /\ \A d \in Client : cpc'[d] = cpc[d] /\ proj'[d] = proj[d]
    BY <1>5, StreamAssumption DEF Request, Sync, Respond, Goto, Inv, Types, Held, Task
  <2>2. Rendered' = Rendered
    BY <2>1, SameLog
  <2>3. ASSUME NEW d \in Client PROVE Told(d)'
    BY <2>1, ToldKept DEF Delivered
  <2> QED BY <2>1, <2>2, <2>3 DEF Delivered
<1>6. ASSUME NEW c \in Client, Connect(c) \/ SocketStep(c) \/ Drop(c) PROVE Delivered'
  <2> USE DEF Goto, Task
  <2>0. /\ cpc \in [Task -> {"off", "take", "sync", "insert", "send", "status", "wait", "exit"}]
        /\ phase \in [Client -> {"backfill", "loop", "tail"}]
        /\ cursor \in [Client -> Nat] /\ last \in [Client -> Nat]
        /\ fr \in [Client -> Nat] /\ mark \in [Client -> Nat]
        /\ recv \in [Client -> Seq(Nat \X Nat)]
        /\ proj \in [Task -> Projection] /\ out \in [Client -> SUBSET Nat] /\ Exact(proj[c])
    BY DEF Inv, Types, Held
  <2>a. UNCHANGED <<file, row, endmark>>
    BY <1>6 DEF Connect, SocketStep, TakeOut, Sync, Insert, Send, SendDone, Status, Wake, Exit, Drop
  <2>b. \A d \in Client \ {c} : UNCHANGED Own(d)
    <3>1. ASSUME NEW d \in Client \ {c}, Connect(c) PROVE UNCHANGED Own(d)
      BY <2>0, <3>1 DEF Own, Connect
    <3>2. ASSUME NEW d \in Client \ {c}, TakeOut(c) PROVE UNCHANGED Own(d)
      BY <2>0, <3>2 DEF Own, TakeOut
    <3>3. ASSUME NEW d \in Client \ {c}, Sync(c) PROVE UNCHANGED Own(d)
      BY <2>0, <3>3 DEF Own, Sync
    <3>4. ASSUME NEW d \in Client \ {c}, Insert(c) PROVE UNCHANGED Own(d)
      BY <2>0, <3>4 DEF Own, Insert
    <3>5. ASSUME NEW d \in Client \ {c}, Send(c) PROVE UNCHANGED Own(d)
      BY <2>0, <3>5 DEF Own, Send
    <3>6. ASSUME NEW d \in Client \ {c}, SendDone(c) PROVE UNCHANGED Own(d)
      BY <2>0, <3>6 DEF Own, SendDone
    <3>7. ASSUME NEW d \in Client \ {c}, Status(c) PROVE UNCHANGED Own(d)
      <4>1. CASE row = "absent"
        BY <2>0, <3>7, <4>1 DEF Own, Status, Hangup
      <4>2. CASE row = "live"
        BY <2>0, <3>7, <4>2 DEF Own, Status
      <4>3. CASE row = "ended"
        BY <2>0, <3>7, <4>3 DEF Own, Status
      <4> QED BY <4>1, <4>2, <4>3 DEF Inv, Types
    <3>8. ASSUME NEW d \in Client \ {c}, Wake(c) PROVE UNCHANGED Own(d)
      BY <2>0, <3>8 DEF Own, Wake, Hangup
    <3>9. ASSUME NEW d \in Client \ {c}, Exit(c) \/ Drop(c) PROVE UNCHANGED Own(d)
      BY <2>0, <3>9 DEF Own, Exit, Drop, Hangup
    <3> QED BY <1>6, <3>1, <3>2, <3>3, <3>4, <3>5, <3>6, <3>7, <3>8, <3>9 DEF SocketStep
  <2>c. /\ Rendered' = Rendered /\ Len(file') = Len(file)
        /\ \A n : RenderedUpTo(n)' = RenderedUpTo(n)
        /\ \A q : Pos(q)' = Pos(q)
        /\ \A n, k : ToSend(n, k)' = ToSend(n, k)
    BY <2>a, SameLog
  <2>d. Told(c)
    BY DEF Delivered
  <2> SUFFICES Told(c)'
    BY <2>a, <2>b, OneActs
  <2>1. CASE Connect(c)
    <3>1. /\ cpc[c] = "off" /\ cpc'[c] = "take" /\ cursor'[c] = last[c]
          /\ UNCHANGED <<row, fr, mark, recv, last>>
      BY <2>0, <2>1 DEF Connect
    <3>2. Sent(c)' = Sent(c)
      BY <3>1 DEF Sent
    <3> QED BY <2>c, <2>d, <3>1, <3>2 DEF Told
  <2>2. CASE TakeOut(c)
    <3>1. /\ cpc[c] = "take" /\ cpc'[c] = "sync" /\ UNCHANGED <<row, cursor, fr, mark, recv, last>>
      BY <2>0, <2>2 DEF TakeOut
    <3>2. Sent(c)' = Sent(c)
      BY <3>1 DEF Sent
    <3> QED BY <2>c, <2>d, <3>1, <3>2 DEF Told
  <2>3. CASE Sync(c)
    <3>1. /\ cpc[c] = "sync" /\ cpc'[c] = "insert"
          /\ UNCHANGED <<row, phase, cursor, fr, mark, recv, last>>
          /\ row # "absent" => proj'[c] = Synced(proj[c])
      BY <2>0, <2>3 DEF Sync
    <3>2. Sent(c)' = Sent(c)
      BY <3>1 DEF Sent
    <3>3. row # "absent" => RenderedUpTo(proj'[c].off) = Rendered
      BY <1>0, <3>1 DEF Synced
    <3>4. RenderedUpTo(proj[c].off)' = RenderedUpTo(proj'[c].off)
      BY <2>c
    <3> QED BY <2>c, <2>d, <3>1, <3>2, <3>3, <3>4 DEF Told
  <2>4. CASE Insert(c)
    <3>1. /\ cpc[c] = "insert" /\ cpc'[c] = "send" /\ out'[c] = SliceFrom(proj[c], cursor[c])
          /\ UNCHANGED <<row, phase, cursor, fr, mark, recv, last>>
      BY <2>0, <2>4 DEF Insert
    <3>2. Sent(c)' = Sent(c)
      BY <3>1 DEF Sent
    <3>3. /\ proj[c].off \in 0..Len(file) /\ proj[c].off \in Nat
          /\ proj[c].rendered = RenderedUpTo(proj[c].off)
      BY <1>0, <2>0 DEF Exact, Projection
    <3>4. SliceFrom(proj[c], cursor[c]) = ToSend(proj[c].off, cursor[c])
      <4>1. \A q \in RenderedUpTo(proj[c].off) : Seq1(proj[c], q) = Pos(q)
        BY <1>0, <3>3, PlaceUpTo DEF Seq1, Place
      <4> QED BY <3>3, <4>1 DEF SliceFrom, ToSend
    <3>5. phase[c] = "tail" /\ row # "absent" => mark[c] <= Cardinality(RenderedUpTo(proj[c].off))
      BY <2>d, <3>1 DEF Told
    <3>6. \E n \in 0..Len(file') :
              /\ out'[c] = ToSend(n, cursor[c])'
              /\ phase[c] = "tail" /\ row # "absent" => mark[c] <= Cardinality(RenderedUpTo(n)')
      BY <2>c, <3>1, <3>3, <3>4, <3>5
    <3> QED BY <2>c, <2>d, <3>1, <3>2, <3>6 DEF Told
  <2>5. CASE Send(c)
    <3>1. PICK q \in out[c] :
              /\ \A r \in out[c] : q <= r
              /\ recv' = [recv EXCEPT ![c] = Append(@, <<q, fr[c] + 1>>)]
              /\ last' = [last EXCEPT ![c] = cursor[c] + 1]
              /\ \/ /\ fr' = [fr EXCEPT ![c] = 0]
                    /\ out' = [out EXCEPT ![c] = @ \ {q}]
                    /\ cursor' = [cursor EXCEPT ![c] = @ + 1]
                 \/ fr' = [fr EXCEPT ![c] = @ + 1] /\ UNCHANGED <<out, cursor>>
      BY <2>5 DEF Send
    <3>2. cpc[c] = "send" /\ UNCHANGED <<row, cpc, phase, mark>>
      BY <2>5 DEF Send
    <3>3. PICK n \in 0..Len(file) :
              /\ out[c] = ToSend(n, cursor[c])
              /\ phase[c] = "tail" /\ row # "absent" => mark[c] <= Cardinality(RenderedUpTo(n))
      BY <2>d, <3>2 DEF Told
    <3>4. /\ q \in Rendered /\ Pos(q) = cursor[c] + 1 /\ cursor[c] + 1 <= Cardinality(Rendered)
          /\ out[c] \ {q} = ToSend(n, cursor[c] + 1)
          /\ \A r \in Rendered : Pos(r) = cursor[c] + 1 => r = q
      <4>1. n \in Nat /\ cursor[c] \in Nat
        BY <1>0, <2>0
      <4> QED BY <1>0, <3>1, <3>3, <4>1, FirstToSend
    <3>5. last'[c] = cursor[c] + 1
      BY <2>0, <3>1
    <3>6. Sent(c) \cup {q} \subseteq Sent(c)'
      <4>1. recv'[c] = Append(recv[c], <<q, fr[c] + 1>>) /\ recv[c] \in Seq(Nat \X Nat)
        BY <2>0, <3>1
      <4>2. Len(recv[c]) \in Nat
        BY <4>1
      <4>3. /\ Len(recv'[c]) = Len(recv[c]) + 1
            /\ \A i \in 1..Len(recv[c]) : recv'[c][i] = recv[c][i]
            /\ recv'[c][Len(recv[c]) + 1] = <<q, fr[c] + 1>>
        BY <4>1
      <4>4. q = recv'[c][Len(recv[c]) + 1][1]
        BY <4>3
      <4>5. /\ 1..Len(recv[c]) \subseteq 1..Len(recv'[c])
            /\ Len(recv[c]) + 1 \in 1..Len(recv'[c])
        BY ONLY <4>2, <4>3
      <4>6. q \in Sent(c)'
        BY <4>4, <4>5 DEF Sent
      <4>7. Sent(c) \subseteq Sent(c)'
        BY <4>3, <4>5 DEF Sent
      <4> QED BY <4>6, <4>7
    <3>7. ASSUME NEW r \in Rendered, Pos(r) <= cursor[c] + 1 PROVE r \in Sent(c)'
      <4>1. Pos(r) \in Nat /\ cursor[c] \in Nat
        <5>1. Place(Rendered, r) \in 1..Cardinality(Rendered)
          BY <1>0, PlaceRange
        <5>2. cursor[c] \in Nat
          BY <2>0
        <5> QED BY <1>0, <5>1, <5>2 DEF Pos
      <4>2. last[c] \in {cursor[c], cursor[c] + 1}
        BY <2>d, <3>2 DEF Told
      <4>3. CASE Pos(r) <= cursor[c]
        <5>1. Pos(r) <= last[c]
          BY <4>1, <4>2, <4>3
        <5> QED BY <2>d, <3>6, <5>1 DEF Told
      <4>4. CASE Pos(r) = cursor[c] + 1
        BY <3>4, <3>6, <4>4
      <4> QED BY <3>7, <4>1, <4>3, <4>4
    <3>8. CASE fr' = [fr EXCEPT ![c] = 0] /\ out' = [out EXCEPT ![c] = @ \ {q}]
               /\ cursor' = [cursor EXCEPT ![c] = @ + 1]
      <4>1. fr'[c] = 0 /\ out'[c] = out[c] \ {q} /\ cursor'[c] = cursor[c] + 1
        BY <2>0, <3>8
      <4>2. out'[c] = ToSend(n, cursor[c])'
        <5>1. \A k : ToSend(n, k)' = ToSend(n, k)
          BY <2>c
        <5>2. ToSend(n, cursor[c])' = ToSend(n, cursor'[c])
          BY <2>c DEF ToSend
        <5> QED BY <3>4, <4>1, <5>2
      <4>3. \E m \in 0..Len(file') :
                /\ out'[c] = ToSend(m, cursor[c])'
                /\ phase[c] = "tail" /\ row # "absent" => mark[c] <= Cardinality(RenderedUpTo(m)')
        BY <2>c, <3>3, <4>2
      <4> QED BY <2>c, <2>d, <3>2, <3>4, <3>5, <3>7, <4>1, <4>3 DEF Told
    <3>9. CASE fr' = [fr EXCEPT ![c] = @ + 1] /\ UNCHANGED <<out, cursor>>
      <4>1. fr'[c] = fr[c] + 1 /\ fr[c] \in Nat /\ out'[c] = out[c] /\ cursor'[c] = cursor[c]
        BY <2>0, <3>9
      <4>2. fr'[c] # 0 /\ out'[c] # {}
        BY <3>1, <4>1
      <4>3. \E m \in 0..Len(file') :
                /\ out'[c] = ToSend(m, cursor[c])'
                /\ phase[c] = "tail" /\ row # "absent" => mark[c] <= Cardinality(RenderedUpTo(m)')
        BY <2>c, <3>3, <3>9
      <4> QED BY <2>c, <2>d, <3>2, <3>4, <3>5, <3>7, <4>1, <4>2, <4>3 DEF Told
    <3> QED BY <3>1, <3>8, <3>9
  <2>6. CASE SendDone(c)
    <3>1. /\ cpc[c] = "send" /\ out[c] = {} /\ UNCHANGED <<row, cursor, out, fr, mark, recv, last>>
          /\ cpc'[c] \in {"take", "status", "exit"} /\ (cpc'[c] = "exit" => phase[c] = "tail")
      <4>1. CASE phase[c] = "backfill"
        BY <2>0, <2>6, <4>1 DEF SendDone
      <4>2. CASE phase[c] = "loop"
        BY <2>0, <2>6, <4>2 DEF SendDone
      <4>3. CASE phase[c] = "tail"
        BY <2>0, <2>6, <4>3 DEF SendDone
      <4> QED BY <2>0, <4>1, <4>2, <4>3
    <3>2. Sent(c)' = Sent(c)
      BY <3>1 DEF Sent
    <3>3. PICK n \in 0..Len(file) :
              /\ out[c] = ToSend(n, cursor[c])
              /\ phase[c] = "tail" /\ row # "absent" => mark[c] <= Cardinality(RenderedUpTo(n))
      BY <2>d, <3>1 DEF Told
    <3>4. Cardinality(RenderedUpTo(n)) <= cursor[c] /\ Cardinality(RenderedUpTo(n)) \in Nat
      <4>1. RenderedUpTo(n) \in SUBSET Rendered
        BY DEF RenderedUpTo
      <4>2. \A q \in RenderedUpTo(n) : Pos(q) \in Nat /\ ~(Pos(q) > cursor[c])
        <5>1. \A q \in RenderedUpTo(n) : ~(Pos(q) > cursor[c])
          BY <3>1, <3>3 DEF ToSend
        <5>2. \A q \in Rendered : Pos(q) \in Nat
          BY <1>0, PlaceRange DEF Pos
        <5> QED BY <4>1, <5>1, <5>2
      <4>3. \A q \in RenderedUpTo(n) : Place(Rendered, q) <= cursor[c]
        BY <2>0, <4>2 DEF Pos
      <4>4. cursor[c] \in Nat
        BY <2>0
      <4> QED BY <1>0, <4>1, <4>3, <4>4, PlacesBelow, FS_Subset, FS_CardinalityType
    <3>5. cpc'[c] = "exit" /\ row # "absent" => mark[c] <= cursor[c]
      BY <2>0, <3>1, <3>3, <3>4
    <3> QED BY <2>c, <2>d, <3>1, <3>2, <3>5 DEF Told
  <2>7. CASE Status(c)
    <3>1. CASE row = "absent"
      <4>1. Hangup(c) /\ last'[c] = last[c] /\ UNCHANGED recv
        BY <2>7, <3>1 DEF Status
      <4> QED BY <2>a, <2>d, <4>1, HangsUp
    <3>2. CASE row = "live"
      <4>1. cpc[c] = "status" /\ cpc'[c] = "wait" /\ UNCHANGED <<row, cursor, fr, mark, recv, last>>
        BY <2>0, <2>7, <3>2 DEF Status
      <4>2. Sent(c)' = Sent(c)
        BY <4>1 DEF Sent
      <4> QED BY <2>c, <2>d, <4>1, <4>2 DEF Told
    <3>3. CASE row = "ended"
      <4>1. /\ cpc[c] = "status" /\ cpc'[c] = "take" /\ mark'[c] = endmark
            /\ UNCHANGED <<row, cursor, fr, recv, last>>
        BY <2>0, <2>7, <3>3 DEF Status
      <4>2. Sent(c)' = Sent(c)
        BY <4>1 DEF Sent
      <4> QED BY <2>c, <2>d, <4>1, <4>2 DEF Told, Delivered
    <3> QED BY <3>1, <3>2, <3>3 DEF Inv, Types
  <2>8. CASE Wake(c)
    <3>1. cpc[c] = "wait" /\ last'[c] = cursor[c] /\ UNCHANGED <<row, recv>>
      BY <2>0, <2>8 DEF Wake
    <3>2. last'[c] = last[c] /\ fr[c] = 0
      BY <2>d, <3>1 DEF Told
    <3>3. CASE row = "absent"
      <4>1. Hangup(c)
        BY <2>8, <3>3 DEF Wake
      <4> QED BY <2>a, <2>d, <3>1, <3>2, <4>1, HangsUp
    <3>4. CASE row # "absent"
      <4>1. cpc'[c] = "take" /\ UNCHANGED <<cursor, fr, mark>>
        BY <2>0, <2>8, <3>4 DEF Wake
      <4>2. Sent(c)' = Sent(c)
        BY <3>1 DEF Sent
      <4> QED BY <2>c, <2>d, <3>1, <3>2, <4>1, <4>2 DEF Told
    <3> QED BY <3>3, <3>4
  <2>9. CASE Exit(c)
    <3>1. cpc[c] = "exit" /\ last'[c] = cursor[c] /\ Hangup(c) /\ UNCHANGED recv
      BY <2>0, <2>9 DEF Exit
    <3>2. last'[c] = last[c]
      BY <2>d, <3>1 DEF Told
    <3> QED BY <2>a, <2>d, <3>1, <3>2, HangsUp
  <2>10. CASE Drop(c)
    <3>1. Hangup(c) /\ UNCHANGED <<recv, last>>
      BY <2>10 DEF Drop
    <3> QED BY <2>a, <2>d, <3>1, HangsUp
  <2> QED BY <1>6, <2>1, <2>2, <2>3, <2>4, <2>5, <2>6, <2>7, <2>8, <2>9, <2>10 DEF SocketStep
<1> QED BY <1>1, <1>2, <1>3, <1>4, <1>5, <1>6 DEF Next

-----------------------------------------------------------------------------
(* The theorems. *)

LEMMA DeliveryInvariance == Spec => [](Inv /\ Delivered)
<1>1. Inv /\ Delivered /\ [Next]_vars => Inv' /\ Delivered'
  BY TypesNext, HeldNext, DeliveredNext DEF Inv
<1> QED BY <1>1, InvInit, DeliveredInit, PTL DEF Spec

\* stream.rs: after a terminal status the log is read once more, so the engineExit frame comes
\* after every line the turn left, whatever connections were lost on the way.
THEOREM ExitIsLast == Spec => []ExitAfterLastLine
<1>1. Inv /\ Delivered => ExitAfterLastLine
  <2> SUFFICES ASSUME Inv, Delivered, NEW c \in Client, cpc[c] = "exit", row # "absent"
               PROVE  Cardinality(Sent(c)) >= mark[c]
    BY DEF ExitAfterLastLine, Sent
  <2>1. /\ Rendered \in SUBSET Nat /\ IsFiniteSet(Rendered) /\ Cardinality(Rendered) \in Nat
    BY RenderedFacts DEF Inv, Held
  <2>2. Told(c)
    BY DEF Delivered
  <2>3. mark[c] \in Nat /\ last[c] \in Nat /\ recv[c] \in Seq(Nat \X Nat)
    BY DEF Inv, Types
  <2>4. mark[c] <= Cardinality(Rendered) /\ mark[c] <= last[c]
    BY <2>2 DEF Told
  <2>5. \A q \in Rendered : Place(Rendered, q) \in Nat
    BY <2>1, PlaceRange
  <2>6. \A q \in Rendered : Place(Rendered, q) <= mark[c] => q \in Sent(c)
    <3>1. \A q \in Rendered : Place(Rendered, q) <= mark[c] => Pos(q) <= last[c]
      BY <2>3, <2>4, <2>5 DEF Pos
    <3> QED BY <2>2, <3>1 DEF Told
  <2>7. IsFiniteSet(Sent(c)) /\ Cardinality(Sent(c)) \in Nat
    <3> DEFINE f == [i \in 1..Len(recv[c]) |-> recv[c][i][1]]
    <3>1. f \in Surjection(1..Len(recv[c]), Sent(c))
      BY DEF Sent, Surjection
    <3>2. IsFiniteSet(1..Len(recv[c]))
      BY <2>3, FS_Interval
    <3> HIDE DEF f
    <3> QED BY <3>1, <3>2, FS_Surjection, FS_CardinalityType
  <2>8. mark[c] <= Cardinality(Sent(c))
    BY <2>1, <2>3, <2>4, <2>6, <2>7, PlacesAbove
  <2> QED BY <2>3, <2>7, <2>8
<1> QED BY <1>1, DeliveryInvariance, PTL

-----------------------------------------------------------------------------
(* The live stream implements StreamDelivery. *)

\* The number of a set that has a place.
LEMMA InOrderAt ==
    ASSUME NEW S \in SUBSET Nat, IsFiniteSet(S), NEW k \in 1..Cardinality(S)
    PROVE  InOrder(S)[k] \in S /\ Place(S, InOrder(S)[k]) = k
<1>1. \E q \in S : Place(S, q) = k
  BY PlaceOnto
<1>2. InOrder(S)[k] = CHOOSE q \in S : Place(S, q) = k
  BY DEF InOrder, Place
<1> QED BY <1>1, <1>2

\* The numbers of a set in order are a sequence, as long as the set.
LEMMA InOrderSeq ==
    ASSUME NEW S \in SUBSET Nat, IsFiniteSet(S)
    PROVE  InOrder(S) \in Seq(Nat) /\ Len(InOrder(S)) = Cardinality(S)
<1>1. PICK n \in Nat : n = Cardinality(S)
  BY FS_CardinalityType
<1>2. ASSUME NEW k \in 1..n
      PROVE  (CHOOSE q \in S : Cardinality({r \in S : r <= q}) = k) \in Nat
  <2>1. \E q \in S : Place(S, q) = k
    BY <1>1, PlaceOnto
  <2> QED BY <2>1 DEF Place
<1>3. InOrder(S) \in [1..n -> Nat]
  BY <1>1, <1>2 DEF InOrder
<1> HIDE DEF InOrder
<1> QED BY <1>1, <1>3

\* A number of a set stands at its place.
LEMMA InOrderIs ==
    ASSUME NEW S \in SUBSET Nat, IsFiniteSet(S), NEW q \in S
    PROVE  Place(S, q) \in 1..Cardinality(S) /\ InOrder(S)[Place(S, q)] = q
<1>1. Place(S, q) \in 1..Cardinality(S)
  BY PlaceRange
<1>2. PICK r \in S : r = InOrder(S)[Place(S, q)] /\ Place(S, r) = Place(S, q)
  BY <1>1, InOrderAt
<1> QED BY <1>1, <1>2, PlaceUnique

\* A number above all others comes last and leaves the others their places.
LEMMA PlaceAdded ==
    ASSUME NEW S \in SUBSET Nat, IsFiniteSet(S), NEW x \in Nat, \A q \in S : q < x
    PROVE  /\ IsFiniteSet(S \cup {x}) /\ Cardinality(S \cup {x}) = Cardinality(S) + 1
           /\ Place(S \cup {x}, x) = Cardinality(S) + 1
           /\ \A q \in S : Place(S \cup {x}, q) = Place(S, q)
<1>1. x \notin S
  OBVIOUS
<1>2. IsFiniteSet(S \cup {x}) /\ Cardinality(S \cup {x}) = Cardinality(S) + 1
  BY <1>1, FS_AddElement
<1>3. {r \in S \cup {x} : r <= x} = S \cup {x}
  <2>1. \A r \in S \cup {x} : r <= x
    OBVIOUS
  <2> QED BY <2>1
<1>4. ASSUME NEW q \in S PROVE {r \in S \cup {x} : r <= q} = {r \in S : r <= q}
  <2>1. ~(x <= q)
    OBVIOUS
  <2> QED BY <2>1
<1> QED BY <1>2, <1>3, <1>4 DEF Place

\* With such a number added, the numbers in order are those there were and it.
LEMMA InOrderAdded ==
    ASSUME NEW S \in SUBSET Nat, IsFiniteSet(S), NEW x \in Nat, \A q \in S : q < x
    PROVE  InOrder(S \cup {x}) = Append(InOrder(S), x)
<1> DEFINE T == S \cup {x}
           n == Cardinality(S)
<1>1. /\ IsFiniteSet(T) /\ Cardinality(T) = n + 1 /\ n \in Nat
      /\ Place(T, x) = n + 1 /\ \A q \in S : Place(T, q) = Place(S, q)
  BY PlaceAdded, FS_CardinalityType
<1>2. T \in SUBSET Nat /\ S \subseteq T /\ x \in T
  OBVIOUS
<1> HIDE DEF T, n
<1>4. InOrder(T)[n + 1] = x
  BY <1>1, <1>2, InOrderIs
<1>5. ASSUME NEW k \in 1..n PROVE InOrder(T)[k] = InOrder(S)[k]
  <2>1. PICK q \in S : q = InOrder(S)[k] /\ Place(S, q) = k
    BY InOrderAt DEF n
  <2>2. q \in T /\ Place(T, q) = k
    BY <1>1, <1>2, <2>1
  <2>3. InOrder(T)[Place(T, q)] = q
    BY <1>1, <1>2, <2>2, InOrderIs
  <2> QED BY <2>1, <2>2, <2>3
<1>6. InOrder(S) \in Seq(Nat) /\ Len(InOrder(S)) = n /\ InOrder(T) \in Seq(Nat) /\ Len(InOrder(T)) = n + 1
  BY <1>1, <1>2, InOrderSeq DEF n
<1> HIDE DEF InOrder
<1>7. /\ Append(InOrder(S), x) \in Seq(Nat) /\ Len(Append(InOrder(S), x)) = n + 1
      /\ \A k \in 1..n : Append(InOrder(S), x)[k] = InOrder(S)[k]
      /\ Append(InOrder(S), x)[n + 1] = x
  BY <1>1, <1>6, AppendProperties
<1>8. \A k \in 1..(n + 1) : k \in 1..n \/ k = n + 1
  BY <1>1
<1>9. \A k \in 1..(n + 1) : InOrder(T)[k] = Append(InOrder(S), x)[k]
  BY <1>4, <1>5, <1>7, <1>8
<1> QED BY <1>6, <1>7, <1>9, SeqEqual DEF T

-----------------------------------------------------------------------------
\* A line in the log is a body of it, and its newline comes after the body.
Bounded ==
    /\ Cardinality(Bodies) <= MaxBodies
    /\ Len(file) + appends <= 2 * Cardinality(Bodies)

\* A client received as many lines as the last seq it saw says.
Counted == \A c \in Client : Cardinality(FirstFrames(c)) = last[c]

LEMMA BodiesFacts ==
    ASSUME file \in Seq(Body \cup {"nl"})
    PROVE  /\ Len(file) \in Nat /\ Bodies \subseteq 1..Len(file)
           /\ IsFiniteSet(Bodies) /\ Cardinality(Bodies) \in Nat
<1>1. Len(file) \in Nat /\ Bodies \in SUBSET (1..Len(file))
  BY DEF Bodies
<1>2. IsFiniteSet(1..Len(file))
  BY <1>1, FS_Interval
<1> QED BY <1>1, <1>2, FS_Subset, FS_CardinalityType

\* A body more, at the end of the log.
LEMMA BodyAdded ==
    ASSUME file \in Seq(Body \cup {"nl"}), NEW b \in Body, NEW s,
           s \in {<<b>>, <<b, "nl">>}, file' = file \o s
    PROVE  Len(file') = Len(file) + Len(s) /\ Cardinality(Bodies') = Cardinality(Bodies) + 1
<1>0. "nl" \notin Body
  BY DEF Body, Frames
<1>1. /\ Len(file) \in Nat /\ Bodies \subseteq 1..Len(file) /\ IsFiniteSet(Bodies)
  BY BodiesFacts
<1>2. /\ Len(file') = Len(file) + Len(s) /\ Len(s) \in {1, 2}
      /\ \A q \in 1..Len(file) : file'[q] = file[q]
      /\ file'[Len(file) + 1] = b
      /\ Len(s) = 2 => file'[Len(file) + 2] = "nl"
  <2>1. CASE s = <<b>>
    BY <1>1, <2>1
  <2>2. CASE s = <<b, "nl">>
    <3>1. Len(s) = 2 /\ s[1] = b /\ s[2] = "nl" /\ s \in Seq(Body \cup {"nl"})
      BY <2>2
    <3>2. /\ Len(file') = Len(file) + Len(s)
          /\ \A q \in 1..Len(file) : file'[q] = file[q]
          /\ \A i \in 1..Len(s) : file'[Len(file) + i] = s[i]
      <4>1. PICK l \in Seq(Body \cup {"nl"}) : l = file
        OBVIOUS
      <4>2. /\ Len(l \o s) = Len(l) + Len(s)
            /\ \A q \in 1..Len(l) : (l \o s)[q] = l[q]
            /\ \A i \in 1..Len(s) : (l \o s)[Len(l) + i] = s[i]
        <5>1. PICK m \in Seq(Body \cup {"nl"}) : m = s
          BY <3>1
        <5>2. /\ Len(l \o m) = Len(l) + Len(m)
              /\ \A i \in 1..(Len(l) + Len(m)) : (l \o m)[i] = IF i <= Len(l) THEN l[i] ELSE m[i - Len(l)]
          BY ConcatProperties
        <5>3. Len(l) \in Nat /\ Len(m) \in Nat
          OBVIOUS
        <5> QED BY <5>1, <5>2, <5>3
      <4> QED BY <4>1, <4>2
    <3>3. 1 \in 1..Len(s) /\ 2 \in 1..Len(s)
      BY <3>1
    <3> QED BY <3>1, <3>2, <3>3
  <2> QED BY <2>1, <2>2
<1>3. Bodies' = Bodies \cup {Len(file) + 1}
  <2>1. ASSUME NEW q \in Bodies' PROVE q \in Bodies \/ q = Len(file) + 1
    <3>1. q \in 1..Len(file') /\ file'[q] \in Body
      BY DEF Bodies
    <3>2. q \in 1..Len(file) \/ q = Len(file) + 1 \/ (q = Len(file) + 2 /\ Len(s) = 2)
      BY <1>1, <1>2, <3>1
    <3> QED BY <1>0, <1>2, <3>1, <3>2 DEF Bodies
  <2>2. Bodies \subseteq Bodies' /\ Len(file) + 1 \in Bodies'
    <3>1. 1..Len(file) \subseteq 1..Len(file') /\ Len(file) + 1 \in 1..Len(file')
      BY <1>1, <1>2
    <3> QED BY <1>1, <1>2, <3>1 DEF Bodies
  <2> QED BY <2>1, <2>2
<1>4. Len(file) + 1 \notin Bodies
  BY <1>1
<1> QED BY <1>1, <1>2, <1>3, <1>4, FS_AddElement

\* A newline adds no body.
LEMMA NewlineAdded ==
    ASSUME file \in Seq(Body \cup {"nl"}), file' = Append(file, "nl")
    PROVE  Len(file') = Len(file) + 1 /\ Bodies' = Bodies
<1>0. "nl" \notin Body
  BY DEF Body, Frames
<1>1. /\ Len(file) \in Nat /\ Len(file') = Len(file) + 1
      /\ \A q \in 1..Len(file) : file'[q] = file[q]
      /\ file'[Len(file) + 1] = "nl"
  OBVIOUS
<1>2. \A q \in 1..Len(file') : q \in 1..Len(file) \/ q = Len(file) + 1
  BY <1>1
<1>3. 1..Len(file) \subseteq 1..Len(file')
  BY <1>1
<1> QED BY <1>0, <1>1, <1>2, <1>3 DEF Bodies

\* The bound on the log, which StreamDelivery's lines have, is inductive.
LEMMA BoundedNext ==
    ASSUME Inv, Bounded, [Next]_vars
    PROVE  Bounded'
<1>0. /\ file \in Seq(Body \cup {"nl"}) /\ appends \in Nat /\ MaxBodies \in Nat
      /\ Len(file) \in Nat /\ Cardinality(Bodies) \in Nat
  BY BodiesFacts, StreamAssumption DEF Inv, Types, Held
<1>1. CASE BridgeWrites
  <2>1. PICK b \in Body : file' = file \o <<b, "nl">>
    BY <1>1 DEF BridgeWrites
  <2>2. Len(file') = Len(file) + 2 /\ Cardinality(Bodies') = Cardinality(Bodies) + 1
    BY <1>0, <2>1, BodyAdded
  <2>3. appends' = appends /\ Cardinality(Bodies) < MaxBodies
    BY <1>1 DEF BridgeWrites
  <2> QED BY <1>0, <2>2, <2>3 DEF Bounded
<1>2. CASE EngineWritesLine
  <2>1. "one" \in Body /\ file' = file \o <<"one">>
    BY <1>0, <1>2 DEF EngineWritesLine, Body, Frames
  <2>2. Len(file') = Len(file) + 1 /\ Cardinality(Bodies') = Cardinality(Bodies) + 1
    BY <1>0, <2>1, BodyAdded
  <2>3. appends' = appends + 1 /\ Cardinality(Bodies) < MaxBodies
    BY <1>2 DEF EngineWritesLine
  <2> QED BY <1>0, <2>2, <2>3 DEF Bounded
<1>3. CASE EngineWritesNewline
  <2>1. Len(file') = Len(file) + 1 /\ Bodies' = Bodies
    BY <1>0, <1>3, NewlineAdded DEF EngineWritesNewline
  <2>2. appends' = appends - 1
    BY <1>3 DEF EngineWritesNewline
  <2> QED BY <1>0, <2>1, <2>2 DEF Bounded
<1>4. CASE UNCHANGED <<file, appends>>
  <2>1. Bodies' = Bodies
    BY <1>4 DEF Bodies
  <2> QED BY <1>4, <2>1 DEF Bounded
<1> QED BY <1>1, <1>2, <1>3, <1>4
   DEF Next, vars, logVars, TurnEnds, Resumed, Delete, Evict, Connect, SocketStep, TakeOut, Sync, Insert,
       Send, SendDone, Status, Wake, Exit, Drop, Request, Respond

-----------------------------------------------------------------------------
\* Sending: the first frame of the line after the last seq, or another frame of that line.
LEMMA SendIs ==
    ASSUME Inv, Delivered, NEW c \in Client, Send(c)
    PROVE  \E q \in Rendered :
               /\ recv' = [recv EXCEPT ![c] = Append(@, <<q, fr[c] + 1>>)]
               /\ \/ fr[c] = 0 /\ Pos(q) = last[c] + 1 /\ last'[c] = last[c] + 1
                  \/ fr[c] # 0 /\ last'[c] = last[c]
               /\ \A d \in Client \ {c} : last'[d] = last[d]
<1>1. PICK q \in out[c] :
          /\ \A r \in out[c] : q <= r
          /\ recv' = [recv EXCEPT ![c] = Append(@, <<q, fr[c] + 1>>)]
          /\ last' = [last EXCEPT ![c] = cursor[c] + 1]
  BY DEF Send
<1>2. /\ Told(c) /\ cpc[c] = "send" /\ file \in Seq(Body \cup {"nl"}) /\ Len(file) \in Nat
      /\ cursor[c] \in Nat /\ last \in [Client -> Nat] /\ fr[c] \in Nat
  BY DEF Delivered, Send, Inv, Types, Held
<1>3. PICK n \in 0..Len(file) : out[c] = ToSend(n, cursor[c])
  BY <1>2 DEF Told
<1>4. n \in Nat
  BY <1>2
<1>5. q \in Rendered /\ Pos(q) = cursor[c] + 1
  BY <1>1, <1>2, <1>3, <1>4, FirstToSend
<1>6. last[c] = IF fr[c] = 0 THEN cursor[c] ELSE cursor[c] + 1
  BY <1>2 DEF Told
<1>7. last'[c] = cursor[c] + 1 /\ \A d \in Client \ {c} : last'[d] = last[d]
  BY <1>1, <1>2
<1> QED BY <1>1, <1>5, <1>6, <1>7

\* Every other step leaves what a client received and the last seq it saw.
LEMMA OthersReceiveNothing ==
    ASSUME Inv, Delivered, [Next]_vars, \A c \in Client : ~Send(c)
    PROVE  UNCHANGED <<recv, last>>
<1>1. ASSUME NEW c \in Client, Wake(c) \/ Exit(c) PROVE UNCHANGED <<recv, last>>
  <2>1. /\ Told(c) /\ cpc[c] \in {"wait", "exit"} /\ last' = [last EXCEPT ![c] = cursor[c]]
        /\ last \in [Client -> Nat] /\ recv' = recv
    BY <1>1 DEF Delivered, Wake, Exit, Inv, Types
  <2>2. cursor[c] = last[c]
    BY <2>1 DEF Told
  <2> QED BY <2>1, <2>2
<1>2. CASE \/ BridgeWrites \/ EngineWritesLine \/ EngineWritesNewline
           \/ TurnEnds \/ Resumed \/ Delete \/ Evict \/ UNCHANGED vars
  BY <1>2 DEF BridgeWrites, EngineWritesLine, EngineWritesNewline, TurnEnds, Resumed, Delete, Evict, vars
<1>3. CASE \E c \in Client : Connect(c) \/ TakeOut(c) \/ Insert(c) \/ SendDone(c) \/ Status(c) \/ Drop(c)
  BY <1>3 DEF Connect, TakeOut, Insert, SendDone, Status, Drop
<1>4. CASE \/ \E c \in Client : Sync(c)
           \/ \E r \in Reader : Request(r) \/ Sync(r) \/ Respond(r)
  BY <1>4 DEF Request, Sync, Respond
<1> QED BY <1>1, <1>2, <1>3, <1>4 DEF Next, SocketStep

\* The first frames a client received, in this state.
LEMMA FirstFramesFacts ==
    ASSUME Inv, NEW c \in Client
    PROVE  /\ FirstFrames(c) \in SUBSET Nat /\ IsFiniteSet(FirstFrames(c))
           /\ Cardinality(FirstFrames(c)) \in Nat
           /\ Len(recv[c]) \in Nat /\ recv[c] \in Seq(Nat \X Nat)
           /\ \A i \in FirstFrames(c) : i < Len(recv[c]) + 1
<1>1. recv[c] \in Seq(Nat \X Nat) /\ Len(recv[c]) \in Nat
  BY DEF Inv, Types
<1>2. FirstFrames(c) \in SUBSET (1..Len(recv[c]))
  BY DEF FirstFrames
<1>3. IsFiniteSet(1..Len(recv[c]))
  BY <1>1, FS_Interval
<1>4. IsFiniteSet(FirstFrames(c)) /\ Cardinality(FirstFrames(c)) \in Nat
  BY <1>2, <1>3, FS_Subset, FS_CardinalityType
<1> QED BY <1>1, <1>2, <1>4

\* A first frame is the last of the first frames; another frame is none of them.
LEMMA FrameReceived ==
    ASSUME Inv, NEW c \in Client, NEW q \in Nat, NEW f \in Nat,
           recv'[c] = Append(recv[c], <<q, f>>)
    PROVE  /\ \A i \in FirstFrames(c) : recv'[c][i] = recv[c][i]
           /\ recv'[c][Len(recv[c]) + 1] = <<q, f>>
           /\ FirstFrames(c)' = IF f = 1 THEN FirstFrames(c) \cup {Len(recv[c]) + 1} ELSE FirstFrames(c)
<1>1. recv[c] \in Seq(Nat \X Nat) /\ Len(recv[c]) \in Nat /\ <<q, f>> \in Nat \X Nat
  BY FirstFramesFacts
<1>2. /\ Len(recv'[c]) = Len(recv[c]) + 1
      /\ \A i \in 1..Len(recv[c]) : recv'[c][i] = recv[c][i]
      /\ recv'[c][Len(recv[c]) + 1] = <<q, f>>
  BY <1>1, AppendProperties
<1>3. \A i : i \in 1..Len(recv'[c]) <=> i \in 1..Len(recv[c]) \/ i = Len(recv[c]) + 1
  BY <1>1, <1>2
<1>4. FirstFrames(c)' = {i \in 1..Len(recv'[c]) : recv'[c][i][2] = 1}
  BY DEF FirstFrames
<1>5. recv'[c][Len(recv[c]) + 1][2] = f
  BY <1>2
<1>6. \A i : i \in FirstFrames(c)' <=> i \in FirstFrames(c) \/ (i = Len(recv[c]) + 1 /\ f = 1)
  BY <1>1, <1>2, <1>3, <1>4, <1>5 DEF FirstFrames
<1>7. \A i \in FirstFrames(c) : i \in 1..Len(recv[c])
  BY DEF FirstFrames
<1> QED BY <1>2, <1>6, <1>7

LEMMA CountedInit == Init => Counted
<1> SUFFICES ASSUME Init, NEW c \in Client PROVE FirstFrames(c) = {} /\ last[c] = 0
  BY FS_EmptySet DEF Counted
<1>1. recv[c] = <<>> /\ last[c] = 0
  BY DEF Init
<1> QED BY <1>1 DEF FirstFrames

LEMMA CountedNext ==
    ASSUME Inv, Delivered, Counted, [Next]_vars
    PROVE  Counted'
<1>1. ASSUME NEW d \in Client, recv'[d] = recv[d], last'[d] = last[d]
      PROVE  Cardinality(FirstFrames(d))' = last'[d]
  <2>1. FirstFrames(d)' = FirstFrames(d)
    BY <1>1 DEF FirstFrames
  <2> QED BY <1>1, <2>1 DEF Counted
<1>2. CASE \A c \in Client : ~Send(c)
  <2>1. UNCHANGED <<recv, last>>
    BY <1>2, OthersReceiveNothing
  <2> QED BY <1>1, <2>1 DEF Counted
<1>3. ASSUME NEW c \in Client, Send(c) PROVE Counted'
  <2>1. PICK q \in Rendered :
            /\ recv' = [recv EXCEPT ![c] = Append(@, <<q, fr[c] + 1>>)]
            /\ \/ fr[c] = 0 /\ Pos(q) = last[c] + 1 /\ last'[c] = last[c] + 1
               \/ fr[c] # 0 /\ last'[c] = last[c]
            /\ \A d \in Client \ {c} : last'[d] = last[d]
    BY <1>3, SendIs
  <2>2. recv \in [Client -> Seq(Nat \X Nat)] /\ fr[c] \in Nat /\ q \in Nat /\ last[c] \in Nat
    BY RenderedFacts DEF Inv, Types, Held
  <2>3. recv'[c] = Append(recv[c], <<q, fr[c] + 1>>) /\ \A d \in Client \ {c} : recv'[d] = recv[d]
    BY <2>1, <2>2
  <2>4. PICK f \in Nat : f = fr[c] + 1
    BY <2>2
  <2>5. FirstFrames(c)' = IF f = 1 THEN FirstFrames(c) \cup {Len(recv[c]) + 1} ELSE FirstFrames(c)
    <3>1. recv'[c] = Append(recv[c], <<q, f>>)
      BY <2>3, <2>4
    <3> QED BY <2>2, <3>1, FrameReceived
  <2>6. Cardinality(FirstFrames(c)) = last[c]
    BY DEF Counted
  <2>7. Cardinality(FirstFrames(c) \cup {Len(recv[c]) + 1}) = Cardinality(FirstFrames(c)) + 1
    <3>1. PICK S \in SUBSET Nat : S = FirstFrames(c)
      BY FirstFramesFacts
    <3>2. PICK x \in Nat : x = Len(recv[c]) + 1
      BY FirstFramesFacts
    <3>3. IsFiniteSet(S) /\ \A i \in S : i < x
      BY <3>1, <3>2, FirstFramesFacts
    <3> QED BY <3>1, <3>2, <3>3, PlaceAdded
  <2>8. Cardinality(FirstFrames(c))' = last'[c]
    <3>1. CASE fr[c] = 0
      BY <2>1, <2>4, <2>5, <2>6, <2>7, <3>1
    <3>2. CASE fr[c] # 0
      BY <2>1, <2>2, <2>4, <2>5, <2>6, <3>2
    <3> QED BY <3>1, <3>2
  <2> QED BY <1>1, <2>1, <2>3, <2>8 DEF Counted
<1> QED BY <1>2, <1>3

LEMMA BoundedInit == Init => Bounded
<1> SUFFICES ASSUME Init PROVE Bounded
  OBVIOUS
<1>1. Len(file) = 0 /\ appends = 0
  BY DEF Init
<1>2. Bodies = {}
  BY <1>1 DEF Bodies
<1> QED BY <1>1, <1>2, FS_EmptySet, StreamAssumption DEF Bounded

-----------------------------------------------------------------------------
(* Steps of the log. *)

\* A line that comes into the log is the one that a newline completed.
LEMMA LineCompleted ==
    ASSUME file \in Seq(Body \cup {"nl"}), NEW s \in Seq(Body \cup {"nl"}), file' = file \o s,
           NEW q \in Rendered', q \notin Rendered
    PROVE  q \in Nat /\ Len(file) <= q /\ q < Len(file') /\ file'[q + 1] = "nl"
<1>1. /\ q \in 1..Len(file') /\ q < Len(file') /\ file'[q + 1] = "nl"
  BY DEF Rendered, IsRendered, IsLine, Bodies
<1>2. PICK n \in Nat : n = Len(file)
  OBVIOUS
<1>3. RenderedUpTo(n) = Rendered
  BY <1>2, RenderedFacts
<1>4. RenderedUpTo(n)' = RenderedUpTo(n) /\ Len(file') \in Nat
  BY <1>2, AppendKeepsLines
<1>5. ~(q + 1 <= n)
  BY <1>3, <1>4 DEF RenderedUpTo
<1>6. q \in Nat
  BY <1>1, <1>4
<1> QED BY <1>1, <1>2, <1>4, <1>5, <1>6

\* A step adds no line to the log, or one at its end.
LEMMA LinesJoin ==
    ASSUME Inv, Bounded, [Next]_vars
    PROVE  \/ Rendered' = Rendered
           \/ \E q \in 1..(3 * MaxBodies) :
                  Rendered' = Rendered \cup {q} /\ \A r \in Rendered : r < q
<1>0. /\ file \in Seq(Body \cup {"nl"}) /\ appends \in Nat /\ MaxBodies \in Nat
      /\ Len(file) \in Nat /\ Cardinality(Bodies) \in Nat
      /\ Rendered \in SUBSET Nat /\ \A r \in Rendered : r + 1 <= Len(file)
  BY BodiesFacts, RenderedFacts, StreamAssumption DEF Inv, Types, Held
<1>1. Len(file) + appends <= 2 * Cardinality(Bodies) /\ Cardinality(Bodies) <= MaxBodies
  BY DEF Bounded
<1>2. CASE BridgeWrites
  <2>1. PICK b \in Body : file' = file \o <<b, "nl">>
    BY <1>2 DEF BridgeWrites
  <2>2. PICK s \in Seq(Body \cup {"nl"}) : s = <<b, "nl">>
    <3>1. <<b, "nl">> \in Seq(Body \cup {"nl"})
      BY DEF Body
    <3> QED BY <3>1
  <2>3. file' = file \o s /\ Rendered \subseteq Rendered'
    BY <1>0, <2>1, <2>2, NewLinesComeLater
  <2>4. Len(file') = Len(file) + 2 /\ file'[Len(file) + 1] = b
    BY <1>0, <2>1
  <2>5. b # "nl"
    BY DEF Body, Frames
  <2>6. \A q \in Rendered' : q \notin Rendered => q = Len(file) + 1
    <3> SUFFICES ASSUME NEW q \in Rendered', q \notin Rendered PROVE q = Len(file) + 1
      OBVIOUS
    <3>1. q \in Nat /\ Len(file) <= q /\ q < Len(file') /\ file'[q + 1] = "nl"
      BY <1>0, <2>3, LineCompleted
    <3> QED BY <1>0, <2>4, <2>5, <3>1
  <2>7. Cardinality(Bodies) < MaxBodies
    BY <1>2 DEF BridgeWrites
  <2>8. PICK q \in 1..(3 * MaxBodies) : q = Len(file) + 1
    BY <1>0, <1>1, <2>7
  <2>9. \A r \in Rendered : r < q
    BY <1>0, <2>8
  <2> QED BY <2>3, <2>6, <2>8, <2>9
<1>3. CASE EngineWritesLine
  <2>1. PICK s \in Seq(Body \cup {"nl"}) : s = <<"one">>
    <3>1. "one" \in Body
      BY DEF Body, Frames
    <3>2. <<"one">> \in Seq(Body \cup {"nl"})
      BY <3>1
    <3> QED BY <3>2
  <2>2. file' = file \o s
    BY <1>0, <1>3, <2>1 DEF EngineWritesLine, Body, Frames
  <2>3. Len(file') = Len(file) + 1 /\ file'[Len(file) + 1] = "one"
    BY <1>0, <1>3 DEF EngineWritesLine
  <2>4. Rendered \subseteq Rendered'
    BY <1>0, <2>2, NewLinesComeLater
  <2>5. \A q \in Rendered' : q \in Rendered
    BY <1>0, <2>2, <2>3, LineCompleted
  <2> QED BY <2>4, <2>5
<1>4. CASE EngineWritesNewline
  <2>1. PICK s \in Seq(Body \cup {"nl"}) : s = <<"nl">>
    <3>1. <<"nl">> \in Seq(Body \cup {"nl"})
      OBVIOUS
    <3> QED BY <3>1
  <2>2. file' = file \o s /\ Len(file') = Len(file) + 1
    BY <1>0, <1>4, <2>1 DEF EngineWritesNewline
  <2>3. Rendered \subseteq Rendered'
    BY <1>0, <2>2, NewLinesComeLater
  <2>4. \A q \in Rendered' : q \notin Rendered => q = Len(file) /\ q \in 1..Len(file')
    <3>1. \A q \in Rendered' : q \in 1..Len(file')
      BY DEF Rendered, Bodies
    <3> SUFFICES ASSUME NEW q \in Rendered', q \notin Rendered PROVE q = Len(file)
      BY <3>1
    <3>2. q \in Nat /\ Len(file) <= q /\ q < Len(file')
      BY <1>0, <2>2, LineCompleted
    <3> QED BY <1>0, <2>2, <3>2
  <2>5. CASE Rendered' # Rendered
    <3>1. PICK q \in Rendered' : q = Len(file) /\ q \in 1..Len(file')
      BY <2>3, <2>4, <2>5
    <3>2. q \in 1..(3 * MaxBodies) /\ \A r \in Rendered : r < q
      BY <1>0, <1>1, <3>1
    <3> QED BY <2>3, <2>4, <3>1, <3>2
  <2> QED BY <2>5
<1>5. CASE UNCHANGED file
  BY <1>5, SameLog
<1> QED BY <1>2, <1>3, <1>4, <1>5
   DEF Next, vars, logVars, TurnEnds, Resumed, Delete, Evict, Connect, SocketStep, TakeOut, Sync, Insert,
       Send, SendDone, Status, Wake, Exit, Drop, Request, Respond

-----------------------------------------------------------------------------
(* Steps of a client. *)

\* What a client received is a sequence, one line for each first frame.
LEMMA ReceivedIs ==
    ASSUME Inv, NEW c \in Client
    PROVE  Received(c) \in Seq(Nat) /\ Len(Received(c)) = Cardinality(FirstFrames(c))
<1> DEFINE S == FirstFrames(c)
<1>1. /\ S \in SUBSET Nat /\ IsFiniteSet(S) /\ Cardinality(S) \in Nat
      /\ recv[c] \in Seq(Nat \X Nat) /\ S \subseteq 1..Len(recv[c])
  BY FirstFramesFacts DEF FirstFrames
<1>2. \A k \in 1..Cardinality(S) : InOrder(S)[k] \in S
  BY <1>1, InOrderAt
<1>3. \A k \in 1..Cardinality(S) : recv[c][InOrder(S)[k]][1] \in Nat
  BY <1>1, <1>2
<1>4. Received(c) = [k \in 1..Cardinality(S) |-> recv[c][InOrder(S)[k]][1]]
  BY DEF Received
<1> HIDE DEF S
<1>5. Received(c) \in Seq(Nat) /\ Len(Received(c)) = Cardinality(S)
  <2>1. PICK n \in Nat : n = Cardinality(S)
    BY <1>1
  <2>2. Received(c) \in [1..n -> Nat]
    BY <1>3, <1>4, <2>1
  <2> HIDE DEF Received
  <2> QED BY <2>1, <2>2
<1> QED BY <1>5 DEF S

\* A client makes of the same frames the same lines.
LEMMA ReceivedSame ==
    ASSUME Inv, NEW c \in Client, FirstFrames(c)' = FirstFrames(c),
           \A i \in FirstFrames(c) : recv'[c][i] = recv[c][i]
    PROVE  Received(c)' = Received(c)
<1>1. \A k \in 1..Cardinality(FirstFrames(c)) : InOrder(FirstFrames(c))[k] \in FirstFrames(c)
  BY FirstFramesFacts, InOrderAt
<1>2. InOrder(FirstFrames(c))' = InOrder(FirstFrames(c))
  BY DEF InOrder
<1> QED BY <1>1, <1>2 DEF Received

\* The first frame of a line more is that line at the end of those it received.
LEMMA ReceivedAdded ==
    ASSUME Inv, NEW c \in Client, NEW q \in Nat, NEW f \in Nat, f = 1,
           recv'[c] = Append(recv[c], <<q, f>>)
    PROVE  Received(c)' = Append(Received(c), q)
<1>1. PICK S \in SUBSET Nat : S = FirstFrames(c)
  BY FirstFramesFacts
<1>2. PICK x \in Nat : x = Len(recv[c]) + 1
  BY FirstFramesFacts
<1>3. PICK n \in Nat : n = Cardinality(S)
  BY <1>1, FirstFramesFacts
<1>4. IsFiniteSet(S) /\ \A i \in S : i < x
  BY <1>1, <1>2, FirstFramesFacts
<1>5. PICK T \in SUBSET Nat : T = S \cup {x}
  OBVIOUS
<1>6. /\ \A i \in S : recv'[c][i] = recv[c][i]
      /\ recv'[c][x] = <<q, f>>
      /\ FirstFrames(c)' = T
  BY <1>1, <1>2, <1>5, FrameReceived
<1>7. Cardinality(T) = n + 1
  BY <1>3, <1>4, <1>5, PlaceAdded
<1>8. InOrder(T) = Append(InOrder(S), x) /\ InOrder(S) \in Seq(Nat) /\ Len(InOrder(S)) = n
  BY <1>3, <1>4, <1>5, InOrderAdded, InOrderSeq
<1>9. \A k \in 1..n : InOrder(S)[k] \in S /\ InOrder(T)[k] = InOrder(S)[k]
  <2>1. \A k \in 1..n : InOrder(S)[k] \in S
    BY <1>3, <1>4, InOrderAt
  <2> HIDE DEF InOrder
  <2> QED BY <1>8, <2>1, AppendProperties
<1>10. InOrder(T)[n + 1] = x
  <2> HIDE DEF InOrder
  <2> QED BY <1>8, AppendProperties
<1>11. Received(c)' = [k \in 1..(n + 1) |-> recv'[c][InOrder(T)[k]][1]]
  BY <1>6, <1>7 DEF Received, InOrder
<1>12. Received(c) = [k \in 1..n |-> recv[c][InOrder(S)[k]][1]]
  BY <1>1, <1>3 DEF Received
<1>13. Received(c) \in Seq(Nat) /\ Len(Received(c)) = n
  BY <1>1, <1>3, ReceivedIs
<1>14. PICK A \in Seq(Nat) : A = Append(Received(c), q)
  <2>1. Append(Received(c), q) \in Seq(Nat)
    BY <1>13, AppendProperties
  <2> QED BY <2>1
<1>15. /\ Len(A) = n + 1 /\ A[n + 1] = q
       /\ \A k \in 1..n : A[k] = Received(c)[k]
  BY <1>13, <1>14, AppendProperties
<1>16. ASSUME NEW k \in 1..(n + 1) PROVE recv'[c][InOrder(T)[k]][1] = A[k]
  <2>1. CASE k = n + 1
    <3>1. recv'[c][x][1] = q
      <4>1. <<q, f>>[1] = q
        OBVIOUS
      <4>2. recv'[c][x] = <<q, f>>
        BY <1>6
      <4>3. recv'[c][x][1] = <<q, f>>[1]
        BY <4>2, Zenon
      <4> QED BY <4>1, <4>3, Zenon
    <3>2. InOrder(T)[k] = x /\ A[k] = q
      BY <1>10, <1>15, <2>1
    <3> QED BY <3>1, <3>2
  <2>2. CASE k \in 1..n
    <3>1. PICK i \in S : i = InOrder(S)[k] /\ i = InOrder(T)[k]
      BY <1>9, <2>2
    <3>2. recv'[c][i] = recv[c][i]
      BY <1>6
    <3>3. Received(c)[k] = recv[c][InOrder(S)[k]][1]
      BY <1>12, <2>2
    <3> QED BY <1>15, <2>2, <3>1, <3>2, <3>3
  <2>3. k = n + 1 \/ k \in 1..n
    OBVIOUS
  <2> QED BY <2>1, <2>2, <2>3
<1>17. A = [k \in 1..(n + 1) |-> A[k]]
  BY <1>15
<1> QED BY <1>11, <1>14, <1>16, <1>17

\* Sending a first frame delivers the next line of the log; another frame delivers nothing.
LEMMA SendDelivers ==
    ASSUME Inv, Delivered, Counted, NEW c \in Client, Send(c)
    PROVE  /\ RenderedLines' = RenderedLines
           /\ \A d \in Client \ {c} : Received(d)' = Received(d)
           /\ \/ Received(c)' = Received(c)
              \/ /\ Len(Received(c)) < Len(RenderedLines)
                 /\ Received(c)' = Append(Received(c), RenderedLines[Len(Received(c)) + 1])
<1>0. /\ file \in Seq(Body \cup {"nl"}) /\ recv \in [Client -> Seq(Nat \X Nat)]
      /\ fr[c] \in Nat /\ last[c] \in Nat
      /\ Rendered \in SUBSET Nat /\ IsFiniteSet(Rendered)
  BY RenderedFacts DEF Inv, Types, Held
<1>1. PICK q \in Rendered :
          /\ recv' = [recv EXCEPT ![c] = Append(@, <<q, fr[c] + 1>>)]
          /\ \/ fr[c] = 0 /\ Pos(q) = last[c] + 1 /\ last'[c] = last[c] + 1
             \/ fr[c] # 0 /\ last'[c] = last[c]
          /\ \A d \in Client \ {c} : last'[d] = last[d]
  BY SendIs
<1>2. recv'[c] = Append(recv[c], <<q, fr[c] + 1>>) /\ \A d \in Client \ {c} : recv'[d] = recv[d]
  BY <1>0, <1>1
<1>3. RenderedLines' = RenderedLines
  <2>1. Rendered' = Rendered
    BY SameLog DEF Send, logVars
  <2> QED BY <2>1 DEF RenderedLines, InOrder
<1>4. ASSUME NEW d \in Client \ {c} PROVE Received(d)' = Received(d)
  <2>1. recv'[d] = recv[d] /\ FirstFrames(d)' = FirstFrames(d)
    BY <1>2 DEF FirstFrames
  <2> QED BY <2>1, ReceivedSame
<1>5. CASE fr[c] = 0
  <2>0. PICK f \in Nat : f = fr[c] + 1 /\ f = 1
    BY <1>0, <1>5
  <2>1. q \in Nat /\ recv'[c] = Append(recv[c], <<q, f>>) /\ Pos(q) = last[c] + 1
    BY <1>0, <1>1, <1>2, <1>5, <2>0
  <2>2. Received(c)' = Append(Received(c), q)
    BY <2>0, <2>1, ReceivedAdded
  <2>3. Len(Received(c)) = last[c]
    BY ReceivedIs DEF Counted
  <2>4. Pos(q) \in 1..Cardinality(Rendered) /\ InOrder(Rendered)[Pos(q)] = q
    BY <1>0, InOrderIs DEF Pos
  <2>5. Len(InOrder(Rendered)) = Cardinality(Rendered)
    BY <1>0, InOrderSeq
  <2>6. Cardinality(Rendered) \in Nat
    BY <1>0, FS_CardinalityType
  <2>7. Len(Received(c)) < Len(RenderedLines) /\ RenderedLines[Len(Received(c)) + 1] = q
    BY <1>0, <2>1, <2>3, <2>4, <2>5, <2>6 DEF RenderedLines
  <2> QED BY <1>3, <1>4, <2>2, <2>7
<1>6. CASE fr[c] # 0
  <2>1. PICK f \in Nat : f = fr[c] + 1 /\ f # 1
    BY <1>0, <1>6
  <2>2. q \in Nat /\ recv'[c] = Append(recv[c], <<q, f>>)
    BY <1>0, <1>2, <2>1
  <2>3. FirstFrames(c)' = FirstFrames(c) /\ \A i \in FirstFrames(c) : recv'[c][i] = recv[c][i]
    BY <2>1, <2>2, FrameReceived
  <2> QED BY <1>3, <1>4, <2>3, ReceivedSame
<1> QED BY <1>5, <1>6

-----------------------------------------------------------------------------
\* The initial states are StreamDelivery's; every step is one of its steps or a stutter.
LEMMA DeliveryInit == Init => Delivery!Init
<1> SUFFICES ASSUME Init PROVE Delivery!Init
  OBVIOUS
<1>1. ASSUME NEW S, S = {} PROVE InOrder(S) = <<>>
  <2>1. Cardinality(S) = 0
    BY <1>1, FS_EmptySet
  <2> QED BY <2>1 DEF InOrder
<1>2. Rendered = {}
  BY DEF Init, Rendered, Bodies
<1>3. ASSUME NEW c \in Client PROVE Received(c) = <<>>
  <2>1. recv[c] = <<>>
    BY DEF Init
  <2>2. FirstFrames(c) = {}
    BY <2>1 DEF FirstFrames
  <2>3. Cardinality(FirstFrames(c)) = 0
    BY <2>2, FS_EmptySet
  <2> QED BY <2>3 DEF Received
<1> QED BY <1>1, <1>2, <1>3 DEF Delivery!Init, RenderedLines

LEMMA DeliveryNext ==
    ASSUME Inv, Delivered, Bounded, Counted, [Next]_vars
    PROVE  [Delivery!Next]_<<RenderedLines, [c \in Client |-> Received(c)]>>
<1>1. ASSUME NEW c \in Client, Send(c)
      PROVE  [Delivery!Next]_<<RenderedLines, [d \in Client |-> Received(d)]>>
  <2>1. /\ RenderedLines' = RenderedLines
        /\ \A d \in Client \ {c} : Received(d)' = Received(d)
        /\ \/ Received(c)' = Received(c)
           \/ /\ Len(Received(c)) < Len(RenderedLines)
              /\ Received(c)' = Append(Received(c), RenderedLines[Len(Received(c)) + 1])
    BY <1>1, SendDelivers
  <2>2. CASE Received(c)' = Received(c)
    <3>1. \A d \in Client : Received(d)' = Received(d)
      BY <2>1, <2>2
    <3> QED BY <2>1, <3>1
  <2>3. CASE /\ Len(Received(c)) < Len(RenderedLines)
             /\ Received(c)' = Append(Received(c), RenderedLines[Len(Received(c)) + 1])
    <3> DEFINE got == [d \in Client |-> Received(d)]
    <3>1. got[c] = Received(c) /\ \A d \in Client : got[d] = Received(d) /\ got'[d] = Received(d)'
      OBVIOUS
    <3>2. got' = [got EXCEPT ![c] = Append(@, RenderedLines[Len(@) + 1])]
      BY <2>1, <2>3
    <3>3. Delivery!Deliver(c)
      BY <2>1, <2>3, <3>1, <3>2 DEF Delivery!Deliver
    <3> QED BY <3>3 DEF Delivery!Next
  <2> QED BY <2>1, <2>2, <2>3
<1>2. CASE \A c \in Client : ~Send(c)
  <2>1. UNCHANGED recv
    BY <1>2, OthersReceiveNothing
  <2>2. ASSUME NEW c \in Client PROVE Received(c)' = Received(c)
    BY <2>1 DEF Received, FirstFrames, InOrder
  <2>3. CASE Rendered' = Rendered
    <3>1. RenderedLines' = RenderedLines
      BY <2>3 DEF RenderedLines, InOrder
    <3> QED BY <2>2, <3>1
  <2>4. ASSUME NEW q \in 1..(3 * MaxBodies), Rendered' = Rendered \cup {q}, \A r \in Rendered : r < q
        PROVE  Delivery!Log
    <3>1. Rendered \in SUBSET Nat /\ IsFiniteSet(Rendered)
      BY RenderedFacts DEF Inv, Held
    <3>2. PICK S \in SUBSET Nat : S = Rendered
      BY <3>1
    <3>3. InOrder(S \cup {q}) = Append(InOrder(S), q)
      BY <2>4, <3>1, <3>2, InOrderAdded
    <3>4. RenderedLines' = Append(RenderedLines, q)
      <4>1. PICK T \in SUBSET Nat : T = S \cup {q}
        <5>1. q \in Nat
          BY StreamAssumption
        <5>2. S \cup {q} \in SUBSET Nat
          BY <5>1
        <5> QED BY <5>2
      <4>2. RenderedLines' = InOrder(T)
        BY <2>4, <3>2, <4>1 DEF RenderedLines, InOrder
      <4>3. RenderedLines = InOrder(S)
        BY <3>2 DEF RenderedLines, InOrder
      <4> QED BY <3>3, <4>1, <4>2, <4>3
    <3> QED BY <2>2, <3>4 DEF Delivery!Log
  <2> QED BY <2>3, <2>4, LinesJoin DEF Delivery!Next
<1> QED BY <1>1, <1>2

\* The live stream implements StreamDelivery: whatever connections are lost, projections evicted
\* and lines half written, each client receives the rendered lines of the log in log order, each
\* once, none left out.
THEOREM LinesInOrder == Spec => DeliversInOrder
<1>1. Inv /\ Delivered /\ Bounded /\ Counted /\ [Next]_vars => Bounded' /\ Counted'
  BY BoundedNext, CountedNext
<1>2. Inv /\ Delivered /\ Bounded /\ Counted /\ [Next]_vars
          => [Delivery!Next]_<<RenderedLines, [c \in Client |-> Received(c)]>>
  BY DeliveryNext
<1> QED BY <1>1, <1>2, BoundedInit, CountedInit, DeliveryInit, DeliveryInvariance, PTL
        DEF Spec, DeliversInOrder, Delivery!Spec

=============================================================================
