----------------------------- MODULE RIPRouter -----------------------------
(* The distance-vector router of rip_router.py on the simulator's links.      *)
(* A link has one cable in each direction that delivers packets in order,     *)
(* however long after they were sent; packets on a cable survive the link.    *)
(* An exception in a handler ends the simulator's thread, and with it all.    *)
EXTENDS Integers, Sequences, FiniteSets, FiniteSetsExt, SequencesExt, Functions

CONSTANTS Routers, Hosts,
          POSITIVE_INFINITY,   \* the longest path is shorter (100)
          TTL,                 \* the cables a packet may cross (20)
          Topologies,          \* the sequences of links, pairs of nodes, to start from
          MaxChanges           \* links that come up or go down later on

VARIABLES routing_table,       \* router -> neighbor -> destination -> distance
          neighbors,           \* router -> neighbor -> port
          forwarding_table,    \* router -> destination -> [port, distance]
          ports,               \* node -> the nodes at its ports, counted from 0
          cable,               \* <<from, to>> -> the packets under way
          changes,             \* the links that came "up" and went "down"
          died                 \* the simulator's thread has ended
vars == <<routing_table, neighbors, forwarding_table, ports, cable, changes, died>>

Nodes == Routers \cup Hosts
Empty == [x \in {} |-> x]
NoNode == "none"
Without(f, x) == Restrict(f, DOMAIN f \ {x})
With(f, x, v) == [y \in DOMAIN f \cup {x} |-> IF y = x THEN v ELSE f[y]]

\* The tables of one router.
Tables(a) == [rt |-> routing_table[a], nbrs |-> neighbors[a], ft |-> forwarding_table[a]]

-----------------------------------------------------------------------------
(* The router                                                                *)

\* The shortest distance and, among the neighbors that offer it, the lowest port;
\* no port when nobody offers a way.
find_shortest_path(t, dest) ==
  LET min_dist == Min({POSITIVE_INFINITY} \cup {t.rt[n][dest] : n \in DOMAIN t.rt})
      best == {n \in DOMAIN t.rt : t.rt[n][dest] = min_dist}
  IN  [distance |-> min_dist,
       port |-> IF min_dist = POSITIVE_INFINITY THEN -1 ELSE Min({t.nbrs[n] : n \in best})]

\* A column without the destination is a KeyError.
KeyError(t, dest) == \E n \in DOMAIN t.rt : dest \notin DOMAIN t.rt[n]

\* The table without the destinations that have no port any more.
Routed(ft) == Restrict(ft, {d \in DOMAIN ft : ft[d].port # -1})

Changed(t, send, error) == [t |-> t, send |-> send, error |-> error]

add_neighbor(t, src, port) ==
  LET old == [n \in DOMAIN t.rt |->
                IF src \in DOMAIN t.rt[n] THEN t.rt[n] ELSE With(t.rt[n], src, POSITIVE_INFINITY)]
      column == [n \in DOMAIN t.nbrs \cup {src} |-> IF n \in DOMAIN t.nbrs THEN POSITIVE_INFINITY ELSE 1]
  IN  Changed([rt |-> With(old, src, column),
               nbrs |-> With(t.nbrs, src, port),
               ft |-> With(t.ft, src, [port |-> port, distance |-> 1])], TRUE, FALSE)

remove_neighbor(t, src, port) ==
  LET t1 == [t EXCEPT !.rt = Without(@, src), !.nbrs = Without(@, src)]
      through == {d \in DOMAIN t.ft : t.ft[d].port = port}
      new == [d \in DOMAIN t.ft |-> IF d \in through THEN find_shortest_path(t1, d) ELSE t.ft[d]]
  IN  IF \E d \in through : KeyError(t1, d) THEN Changed(t, FALSE, TRUE)
      ELSE Changed([t1 EXCEPT !.ft = Routed(new)],
                   \E d \in through : new[d].distance # t.ft[d].distance, FALSE)

\* What an update of a column does to one entry of the forwarding table.  A
\* destination that is not in it stays out.
Recalculates(t, src, dest, port) ==
  /\ dest \in DOMAIN t.ft
  /\ t.ft[dest].port = port /\ t.rt[src][dest] > t.ft[dest].distance
update_forwarding_table(t, src, dest, port) ==
  LET old == t.ft[dest]
      dist == t.rt[src][dest]
  IN  IF dist < old.distance THEN [port |-> port, distance |-> dist]
      ELSE IF dist = old.distance /\ port < old.port THEN [old EXCEPT !.port = port]
      ELSE IF Recalculates(t, src, dest, port) THEN find_shortest_path(t, dest)
      ELSE old

Announced(paths, dest) ==
  IF paths[dest] >= POSITIVE_INFINITY THEN POSITIVE_INFINITY ELSE paths[dest] + 1


\* update_tables, the neighbor's column: what the packet leaves out is withdrawn.
update_column(t, self, src, paths) ==
  [d \in DOMAIN t.rt[src] |->
     IF d \in {self, src} THEN t.rt[src][d]
     ELSE IF d \notin DOMAIN paths THEN POSITIVE_INFINITY
     ELSE Announced(paths, d)]

\* add_nodes: every column gets the new destinations.
add_columns(t, src, new, paths) ==
  [n \in DOMAIN t.rt |->
     [d \in DOMAIN t.rt[n] \cup new |->
        IF n = src /\ d \in new THEN Announced(paths, d)
        ELSE IF d \in DOMAIN t.rt[n] THEN t.rt[n][d] ELSE POSITIVE_INFINITY]]

\* Each destination is looked at by itself; the order does not matter.
handle_routing_update(t, self, src, paths, port) ==
  LET old == DOMAIN t.rt[src]
      new == DOMAIN paths \ old
      t1 == [t EXCEPT !.rt[src] = update_column(t, self, src, paths)]
      t2 == [t1 EXCEPT !.rt = add_columns(t1, src, new, paths)]
      ft == [d \in DOMAIN t.ft \cup new |->
               IF d \notin DOMAIN t.ft THEN [port |-> port, distance |-> t2.rt[src][d]]
               ELSE IF d \in DOMAIN t2.rt[src] THEN update_forwarding_table(t2, src, d, port)
               ELSE t.ft[d]]
      changed == {d \in (old \cup new) \cap DOMAIN ft :
                    \/ d \notin DOMAIN t.ft
                    \/ ft[d].distance < t.ft[d].distance
                    \/ Recalculates(t2, src, d, port)}
  IN  IF \E d \in old : Recalculates(t1, src, d, port) /\ KeyError(t1, d) THEN Changed(t, FALSE, TRUE)
      ELSE Changed([t2 EXCEPT !.ft = Routed(ft)], changed # {}, FALSE)

\* The port to a destination; -1 when there is no way.
get_port(t, dest) ==
  IF dest \in DOMAIN t.ft /\ t.ft[dest].distance < POSITIVE_INFINITY THEN t.ft[dest].port ELSE -1

\* What a router announces to a neighbor: a way through that neighbor is poisoned.
Paths(t, nbr) ==
  [d \in DOMAIN t.ft \ {nbr} |->
     IF t.ft[d].port = t.nbrs[nbr] THEN POSITIVE_INFINITY ELSE t.ft[d].distance]

-----------------------------------------------------------------------------
(* The simulator                                                             *)

At(p, a, port) == IF port \in 0 .. Len(p[a]) - 1 THEN p[a][port + 1] ELSE NoNode
PortTo(p, a, b) == SelectInSeq(p[a], LAMBDA n : n = b) - 1

\* A packet on the cable at a port of a; it arrives at the port where the cable
\* ends.  It is lost when its time to live is over or the port has no cable.
send(c, p, a, packet, port) ==
  LET b == At(p, a, port)
      sent == [packet EXCEPT !.ttl = @ - 1, !.port = PortTo(p, b, a)]
  IN  IF packet.ttl = 1 \/ b = NoNode THEN c ELSE [c EXCEPT ![<<a, b>>] = Append(@, sent)]

Packet(src, dst, paths) == [src |-> src, dst |-> dst, ttl |-> TTL, port |-> -1, paths |-> paths]

\* An update to each neighbor that is a router.
send_routing_update(c, p, a, t) ==
  FoldLeft(LAMBDA d, n : send(d, p, a, Packet(a, n, Paths(t, n)), get_port(t, n)),
           c, SetToSeq(DOMAIN t.nbrs \ Hosts))

Install(a, t) ==
  /\ routing_table' = [routing_table EXCEPT ![a] = t.rt]
  /\ neighbors' = [neighbors EXCEPT ![a] = t.nbrs]
  /\ forwarding_table' = [forwarding_table EXCEPT ![a] = t.ft]

\* The first port without a cable, or a new one.
FreePort(p, a) == IF NoNode \in Range(p[a]) THEN PortTo(p, a, NoNode) ELSE Len(p[a])
Plug(p, a, b) ==
  LET n == FreePort(p, a)
  IN  [p EXCEPT ![a] = IF n = Len(p[a]) THEN Append(p[a], b) ELSE [p[a] EXCEPT ![n + 1] = b]]

\* A link comes up: a discovery packet in each direction.
Linked(p, c, a, b) ==
  LET q == Plug(Plug(p, a, b), b, a)
      up(d, x, y) == send(d, q, x, Packet(x, NoNode, Empty), PortTo(q, x, y))
  IN  [ports |-> q, cable |-> up(up(c, a, b), b, a)]

Init ==
  /\ routing_table = [a \in Routers |-> Empty]
  /\ neighbors = [a \in Routers |-> Empty]
  /\ forwarding_table = [a \in Routers |-> Empty]
  /\ \E links \in Topologies :
       LET start == [ports |-> [a \in Nodes |-> <<>>], cable |-> [e \in Nodes \X Nodes |-> <<>>]]
           net == FoldLeft(LAMBDA n, k : Linked(n.ports, n.cable, k[1], k[2]), start, links)
       IN  ports = net.ports /\ cable = net.cable
  /\ changes = <<>> /\ died = FALSE

\* handle_rx of a packet at the end of its cable.  An update of a node that is no
\* neighbor (any more) is an ordinary packet: forwarded when it is for another
\* node, and else dropped.  Hosts drop everything.
Receive(a, b) ==
  LET packet == Head(cable[<<a, b>>])
      rest == [cable EXCEPT ![<<a, b>>] = Tail(@)]
      t == Tables(b)
      update == packet.dst # NoNode /\ packet.src \in DOMAIN t.rt
      r == IF packet.dst = NoNode THEN add_neighbor(t, packet.src, packet.port)
           ELSE handle_routing_update(t, b, packet.src, packet.paths, packet.port)
  IN  /\ ~died /\ cable[<<a, b>>] # <<>>
      /\ \/ /\ b \in Hosts
            /\ cable' = rest
            /\ UNCHANGED <<routing_table, neighbors, forwarding_table, died>>
         \/ /\ b \in Routers /\ packet.dst # NoNode /\ ~update
            /\ cable' = IF packet.dst = b THEN rest
                        ELSE send(rest, ports, b, packet, get_port(t, packet.dst))
            /\ UNCHANGED <<routing_table, neighbors, forwarding_table, died>>
         \/ /\ b \in Routers /\ (packet.dst = NoNode \/ update)
            /\ Install(b, r.t)
            /\ died' = r.error
            /\ cable' = IF r.send THEN send_routing_update(rest, ports, b, r.t) ELSE rest
      /\ UNCHANGED <<ports, changes>>

LinkUp(a, b) ==
  /\ ~died /\ Len(changes) < MaxChanges
  /\ a # b /\ b \notin Range(ports[a]) /\ ~(a \in Hosts /\ b \in Hosts)
  /\ LET net == Linked(ports, cable, a, b) IN ports' = net.ports /\ cable' = net.cable
  /\ changes' = Append(changes, "up")
  /\ UNCHANGED <<routing_table, neighbors, forwarding_table, died>>

\* goDown: the far end is told first, then the near one, and then the ports are
\* cleared.  What is under way on the cables still arrives.
LinkDown(a, b) ==
  LET ra == remove_neighbor(Tables(a), b, PortTo(ports, a, b))
      rb == remove_neighbor(Tables(b), a, PortTo(ports, b, a))
      Sent(c, n, r) == IF n \in Routers /\ r.send THEN send_routing_update(c, ports, n, r.t) ELSE c
      New(table, field(_)) == [n \in Routers |-> CASE n = a -> field(ra.t) [] n = b -> field(rb.t)
                                                   [] OTHER -> table[n]]
      rt(t) == t.rt
      nbrs(t) == t.nbrs
      ft(t) == t.ft
  IN  /\ ~died /\ Len(changes) < MaxChanges /\ b \in Range(ports[a])
      /\ routing_table' = New(routing_table, rt)
      /\ neighbors' = New(neighbors, nbrs)
      /\ forwarding_table' = New(forwarding_table, ft)
      /\ cable' = Sent(Sent(cable, b, rb), a, ra)
      /\ died' = ((b \in Routers /\ rb.error) \/ (a \in Routers /\ ra.error))
      /\ ports' = [ports EXCEPT ![a][PortTo(ports, a, b) + 1] = NoNode,
                                ![b][PortTo(ports, b, a) + 1] = NoNode]
      /\ changes' = Append(changes, "down")

Quiet == \A e \in DOMAIN cable : cable[e] = <<>>
Idle == (died \/ (Quiet /\ Len(changes) = MaxChanges)) /\ UNCHANGED vars

Next == \/ \E a, b \in Nodes : Receive(a, b) \/ LinkUp(a, b) \/ LinkDown(a, b)
        \/ Idle
Spec == Init /\ [][Next]_vars

-----------------------------------------------------------------------------
(* What the tables promise                                                   *)

Neighbours(a) == Range(ports[a]) \ {NoNode}

\* The nodes that a packet for d visits from a on, in at most n hops.
Hops[n \in Nat, a \in Nodes, d \in Nodes] ==
  IF a = d \/ n = 0 \/ a \in Hosts THEN <<a>>
  ELSE LET b == At(ports, a, get_port(Tables(a), d))
       IN  IF b = NoNode THEN <<a>> ELSE <<a>> \o Hops[n - 1, b, d]

\* The nodes a shortest path needs n links to reach.
Reach[n \in Nat, a \in Nodes] ==
  IF n = 0 THEN {a}
  ELSE Reach[n - 1, a] \cup
       UNION {Neighbours(b) : b \in {c \in Reach[n - 1, a] : c = a \/ c \in Routers}}
Distance(a, d) == Min({n \in 0 .. Cardinality(Nodes) : d \in Reach[n, a]})

Settled ==
  /\ Quiet /\ ~died
  /\ \A a \in Routers : neighbors[a] = [n \in Neighbours(a) |-> PortTo(ports, a, n)]

=============================================================================
