------------------------------ MODULE Fabdcfg ------------------------------
(***************************************************************************)
(* fabdcfg.c: how processes find each other.  directory.json, the same for *)
(* all, says on which node each device is and where its servers bind; the  *)
(* file of a device, read by its own process only, names the servers its   *)
(* clients connect to.  A server and a client start, in either order.      *)
(*                                                                         *)
(* An endpoint is [tr, host, port]; "fabd" endpoints name a device and one *)
(* of its servers.  A JSON object is a function from its keys; Null is what*)
(* it does not have, NotString what is no string where one is looked for.  *)
(* A string in the place of an array is an array of one (fabd_json_array). *)
(***************************************************************************)
EXTENDS Integers, Sequences, SequencesExt

CONSTANTS Servant,      \* the device whose server it is
          Visitor,      \* the device whose client it is
          Placements,   \* bound: where each of the two really runs
          Directories,  \* bound: the directory.json files
          OwnFiles,     \* bound: [device -> its own file]
          Heartbeats,   \* whether ZeroMQ has the heartbeat options
          Null, NotString

\* Only the name of a node is put in place of a '*'; a path has none.
Endpoint ==
    { e \in [tr : STRING, host : STRING, port : STRING] : e.tr = "ipc" => e.host # "*" }

\* What a client of Servant's server has in its configuration.
Wanted == [tr |-> "fabd", host |-> Servant, port |-> "events"]

\* An array of endpoints may hold what is no string.
Lists == Seq(Endpoint \cup {NotString})

\* What the files say, as far as it is looked at, has the form that the README's has.
WellFormed(object) ==
    /\ "node" \in DOMAIN object => object["node"] \in STRING \cup {NotString}
    /\ "servers" \in DOMAIN object =>
          \A name \in DOMAIN object["servers"] :
              LET server == object["servers"][name]
              IN server # Null /\ \A key \in DOMAIN server \cap {"list", "bind", "connect"} :
                                    server[key] \in Lists
    /\ "clients" \in DOMAIN object =>
          \A name \in DOMAIN object["clients"] : object["clients"][name] \in Lists

ASSUME FabdcfgAssumption ==
    /\ Servant # Visitor /\ Wanted \in Endpoint
    /\ Null # NotString /\ {Null, NotString} \cap Endpoint = {}
    /\ Null \notin STRING /\ Null \notin Lists
    /\ \A d \in Directories : /\ WellFormed(d.defaults)
                             /\ \A devid \in DOMAIN d.devices : WellFormed(d.devices[devid])
    /\ \A o \in OwnFiles : \A me \in {Servant, Visitor} : WellFormed(o[me])

VARIABLES nodeOf,     \* where each of the two really runs
          directory,  \* directory.json
          own,        \* the devices' own files
          zmqBeats,   \* whether ZeroMQ has the heartbeat options
          bound,      \* the endpoints the server's socket is bound to
          serverAt,   \* "start", "up", or "dead" by an assertion
          clientAt,   \* the same for the client
          next,       \* how many of the client's URIs it has connected to
          ivl,        \* ZMQ_HEARTBEAT_IVL of the client's socket, milliseconds
          timeout,    \* ZMQ_HEARTBEAT_TIMEOUT, -1 when never set
          connected   \* the connections: the URI, the endpoint, the options

files == <<nodeOf, directory, own, zmqBeats>>
cfgVars == <<files, bound, serverAt, clientAt, next, ivl, timeout, connected>>
----------------------------------------------------------------------------
(* Lookups, by the process of device `me'.                                 *)

Get(object, key) == IF key \in DOMAIN object THEN object[key] ELSE Null

\* The file of `devid', when it was loaded; the directory's entry; the defaults.
fabdcfg_device_get(me, devid, key) ==
    LET inDirectory == devid \in DOMAIN directory.devices
        found == << IF devid = me THEN Get(own[me], key) ELSE Null,
                    IF inDirectory THEN Get(directory.devices[devid], key) ELSE Null,
                    Get(directory.defaults, key) >>
        there == { i \in DOMAIN found : found[i] # Null }
    IN IF there = {} THEN Null
       ELSE found[CHOOSE i \in there : \A j \in there : i <= j]

\* A server's configuration: [list |-> its endpoints], or an object that may have
\* "bind" and "connect".
fabdcfg_server_get(me, devid, servername) ==
    LET servers == fabdcfg_device_get(me, devid, "servers")
    IN IF servers = Null THEN Null ELSE Get(servers, servername)

BindList(server) ==
    IF server = Null THEN Null
    ELSE IF "list" \in DOMAIN server THEN server.list ELSE Get(server, "bind")
----------------------------------------------------------------------------
(* The choice of an endpoint.                                              *)

\* Mutant of IsLocal: whoever is not said to be elsewhere.
IsLocalUnlessKnown(me, devid) ==
    LET there == fabdcfg_device_get(me, devid, "node")
        here == fabdcfg_device_get(me, me, "node")
    IN here = Null \/ there = here

\* Both are known to be on the same node.
IsLocal(me, devid) ==
    LET there == fabdcfg_device_get(me, devid, "node")
        here == fabdcfg_device_get(me, me, "node")
    IN there \notin {Null, NotString} /\ there = here

\* The first endpoint of those that apply, if any.
First(list, applicable) ==
    LET fit == { i \in DOMAIN list : list[i] \in applicable }
    IN IF fit = {} THEN Null ELSE list[CHOOSE i \in fit : \A j \in fit : i <= j]

Strings(list) == ToSet(list) \ {NotString}

\* From `connect': any but an ipc endpoint of another node's.
FromConnect(me, devid, list) ==
    First(list, {e \in Strings(list) : e.tr # "ipc" \/ IsLocal(me, devid)})

\* From `bind': what has no '*' is taken to work locally only.
FromBind(me, devid, list) ==
    LET node == fabdcfg_device_get(me, devid, "node")
        hasNode == node \notin {Null, NotString}
        e == First(list, {x \in Strings(list) :
                            IF x.host = "*" THEN hasNode ELSE IsLocal(me, devid)})
    IN IF e # Null /\ e.host = "*" THEN [e EXCEPT !.host = node] ELSE e

fabdcfg_server_get_connect(me, devid, servername) ==
    LET server == fabdcfg_server_get(me, devid, servername)
    IN IF server = Null THEN Null
       ELSE IF "connect" \in DOMAIN server
       THEN FromConnect(me, devid, server.connect)
       ELSE IF BindList(server) = Null THEN Null
       ELSE FromBind(me, devid, BindList(server))

\* What a client connects to for a URI of its configuration.
Resolved(me, uri) ==
    IF uri.tr = "fabd" THEN fabdcfg_server_get_connect(me, uri.host, uri.port) ELSE uri
----------------------------------------------------------------------------
(* The two processes.                                                      *)

CfgInit ==
    /\ nodeOf \in Placements
    /\ directory \in Directories
    /\ own \in OwnFiles
    /\ zmqBeats \in Heartbeats
    /\ bound = {} /\ serverAt = "start" /\ clientAt = "start"
    /\ next = 0 /\ ivl = 0 /\ timeout = -1 /\ connected = {}

\* What ZeroMQ can bind a socket to.
Bindable(e) ==
    e # NotString /\ (e.tr = "ipc" \/ e.host \in {"*", "localhost", nodeOf[Servant]})

\* fabdcfg_zmq_bind, which is asserted to succeed.
ZmqBind ==
    /\ serverAt = "start"
    /\ LET list == BindList(fabdcfg_server_get(Servant, Servant, "events"))
       IN IF list = Null \/ \E e \in ToSet(list) : ~Bindable(e)
          THEN serverAt' = "dead" /\ UNCHANGED bound
          ELSE serverAt' = "up" /\ bound' = ToSet(list)
    /\ UNCHANGED <<files, clientAt, next, ivl, timeout, connected>>

Uris == LET clients == fabdcfg_device_get(Visitor, Visitor, "clients")
        IN IF clients = Null THEN Null ELSE Get(clients, "weather")

\* fabdcfg_zmq_connect_init_heartbeat: what was set already is left alone.
InitHeartbeat ==
    IF zmqBeats /\ ivl <= 0
    THEN ivl' = 60000 /\ timeout' = IF timeout > 0 THEN timeout ELSE 10000
    ELSE UNCHANGED <<ivl, timeout>>

\* fabdcfg_zmq_connect, one URI after the other; a connection has the options of
\* its time.  ZeroMQ ends the process when it is given no endpoint.
ZmqConnect ==
    /\ clientAt = "start"
    /\ IF Uris = Null
       THEN clientAt' = "dead" /\ UNCHANGED <<next, ivl, timeout, connected>>
       ELSE IF next = Len(Uris)
       THEN clientAt' = "up" /\ UNCHANGED <<next, ivl, timeout, connected>>
       ELSE LET uri == Uris[next + 1]
                endpoint == IF uri = NotString THEN Null ELSE Resolved(Visitor, uri)
            IN /\ InitHeartbeat
               /\ IF endpoint = Null
                  THEN clientAt' = "dead" /\ UNCHANGED <<next, connected>>
                  ELSE /\ connected' = connected \cup
                            {[uri |-> uri, endpoint |-> endpoint,
                              ivl |-> ivl', timeout |-> timeout']}
                       /\ next' = next + 1
                       /\ UNCHANGED clientAt
    /\ UNCHANGED <<files, bound, serverAt>>

CfgNext == ZmqBind \/ ZmqConnect

CfgSpec == CfgInit /\ [][CfgNext]_cfgVars
----------------------------------------------------------------------------
(* Properties.                                                             *)

\* How ZeroMQ gets from an endpoint to a socket.
Reaches(e) ==
    \E b \in bound :
        /\ e.tr = b.tr /\ e.port = b.port
        /\ IF e.tr = "ipc" THEN nodeOf[Visitor] = nodeOf[Servant]
           ELSE /\ \/ e.host = nodeOf[Servant]
                   \/ e.host = "localhost" /\ nodeOf[Visitor] = nodeOf[Servant]
                /\ b.host \in {"*", e.host}

\* The files tell the truth: where the two run, as far as they say, only endpoints
\* to connect to that lead to bound ones, and nothing about servers and nodes in a
\* file the other does not read.
Truthful ==
    /\ \A me \in {Servant, Visitor} :
          fabdcfg_device_get(me, me, "node") \in {Null, NotString, nodeOf[me]}
    /\ {"servers", "node"} \cap DOMAIN own[Servant] = {}
    /\ LET server == fabdcfg_server_get(Servant, Servant, "events")
       IN server # Null /\ "connect" \in DOMAIN server =>
             \A e \in Strings(server.connect) :
                IF e.tr = "ipc" THEN e \in bound ELSE Reaches(e)

\* A server that is bound on every interface of a node that is given.
BoundOnNode(server) ==
    /\ server # Null /\ "connect" \notin DOMAIN server
    /\ BindList(server) # Null
    /\ \E b \in Strings(BindList(server)) : b.host = "*"
    /\ fabdcfg_device_get(Visitor, Servant, "node") \notin {Null, NotString}

\* Wherever the two run, and whichever of the several endpoints of a server the
\* client's process chooses, a "fabd:" URI leads to a socket that the server has
\* bound; a client never dies of one whose server is bound on every interface of
\* a node that is given; and every connection, the first as well as the last,
\* notices that its peer is gone, where ZeroMQ can (fabdcfg.c:185-288).
ClientsReachServers ==
    /\ serverAt = "up" /\ Truthful =>
          \A c \in connected : c.uri = Wanted => Reaches(c.endpoint)
    /\ clientAt = "dead" /\ Uris # Null =>
          ~ /\ Uris[next + 1] = Wanted
            /\ BoundOnNode(fabdcfg_server_get(Visitor, Servant, "events"))
    /\ zmqBeats => \A c \in connected : c.timeout > 0 /\ c.timeout < c.ivl
=============================================================================
