------------------------------ MODULE LidarLink ------------------------------
(***************************************************************************)
(* The messages between the SDK and its lidars, as far as their content    *)
(* goes: what a configuration file makes of sockets and requests, what the *)
(* functions of the API write into a lidar, and what the user reads of it. *)
(*                                                                         *)
(* When a message is sent and answered, and who is told about a lidar, is  *)
(* in CommandTable and Discovery. Here a request takes effect in one step. *)
(* A lidar is not part of the repository: it keeps the value of each       *)
(* parameter, refuses a value of another size, and sends what it keeps.    *)
(***************************************************************************)
EXTENDS LidarCfg

CONSTANTS
  Lidars,     \* the lidars of the network
  IpOf,       \* their addresses
  TypeOf,     \* their types
  Files,      \* the configuration files that may be given to LivoxLidarSdkInit
  Texts,      \* the addresses that the user may set
  Numbers,    \* the numbers that the user may set
  Factory,    \* the values that a lidar keeps at first
  Pushed,     \* the lists of keys that a lidar may push, and what goes wrong with them
  MaxCalls    \* how many parameters the user sets

Faults == {"no", "header", "data", "empty"}

ASSUME LidarLinkAssumption ==
  /\ IpOf \in [Lidars -> Text]
  /\ TypeOf \in [Lidars -> ToSet(Types)]
  /\ Files \subseteq FileType
  /\ Factory \in [Params -> Seq(Int)]
  /\ Pushed \subseteq Seq(Params) \X Faults

VARIABLES
  cfg,        \* the checked configuration, or NoCfg
  custom,     \* custom_lidars_cfg_map_: the configurations of addresses
  channels,   \* channel_info_: the sockets of addresses and ports
  broadcasts, \* the broadcast sockets
  store,      \* the values that each lidar keeps
  report,     \* what the user was last told of a lidar, or NoReport
  refused,    \* the settings that a lidar refused
  calls       \* how many parameters the user has set

vars == <<cfg, custom, channels, broadcasts, store, report, refused, calls>>

NoCfg == [ok |-> FALSE, custom |-> <<>>, typed |-> <<>>, master |-> FALSE, log |-> FALSE]
NoReport == [lidar |-> "none"]

Configured == {l \in Lidars : IpOf[l] \in DOMAIN custom}
CfgOf(l) == custom[IpOf[l]]

Init ==
  /\ cfg = NoCfg
  /\ custom = <<>>
  /\ channels = <<>>
  /\ broadcasts = {}
  /\ store = [l \in Lidars |-> Factory]
  /\ report = NoReport
  /\ refused = {}
  /\ calls = 0

-----------------------------------------------------------------------------
(***************************************************************************)
(* The configuration.                                                      *)
(***************************************************************************)
\* GetLidarConfigMap. The later of two configurations of a type counts.
CustomMap(cs) ==
  [ip \in {c.lidarIp : c \in ToSet(cs)} |-> CHOOSE c \in ToSet(cs) : c.lidarIp = ip]

TypeMap(cs) ==
  [t \in {c.type : c \in ToSet(cs)} |->
     cs[CHOOSE i \in DOMAIN cs : cs[i].type = t /\ \A j \in DOMAIN cs : cs[j].type = t => j <= i]]

\* LivoxLidarSdkInit. A file that is refused changes nothing.
Load(file) ==
  LET new == Checked(Parsed(file)) IN
  /\ ~cfg.ok /\ new.ok
  /\ cfg' = new
  /\ custom' = CustomMap(new.custom)
  /\ channels' = CreateChannels(new)
  /\ broadcasts' = Broadcasts(ToSet(new.custom))
  /\ UNCHANGED <<store, report, refused, calls>>

\* OnData: the first answer of a lidar whose address the file does not name.
Adopt(l) ==
  LET types == TypeMap(cfg.typed)
      mine == [types[TypeOf[l]] EXCEPT !.lidarIp = IpOf[l]]
      all == Append(cfg.custom, mine)
  IN
  /\ cfg.ok /\ l \notin Configured /\ TypeOf[l] \in DOMAIN types
  /\ custom' = Over([ip \in {IpOf[l]} |-> mine], custom)
  /\ cfg' = [cfg EXCEPT !.custom = all]
  /\ channels' = Over(channels, Opened(all, cfg))
  /\ broadcasts' = broadcasts \cup Broadcasts(ToSet(all))
  /\ UNCHANGED <<store, report, refused, calls>>

-----------------------------------------------------------------------------
(***************************************************************************)
(* Parameters.                                                             *)
(***************************************************************************)
\* What a lidar makes of a request. External.
Accepted(pairs) == {p \in ToSet(pairs) : p.len = ParamSize[p.key]}

Keep(l, pairs) ==
  LET accepted == Accepted(pairs)
      new == [k \in {p.key : p \in accepted} |-> (CHOOSE p \in accepted : p.key = k).value]
  IN /\ store' = [store EXCEPT ![l] = Over(new, @)]
     /\ refused' = refused \cup {p.key : p \in ToSet(pairs) \ accepted}

\* UpdateLidarCfg: a slave leaves the lidars alone.
Configure(l) ==
  /\ cfg.master /\ l \in Configured
  /\ Keep(l, CfgRequest(CfgOf(l)))
  /\ UNCHANGED <<cfg, custom, channels, broadcasts, report, calls>>

\* A function of the API that sets a parameter. What cannot be built is not sent.
Call(l, name, n, text) ==
  /\ l \in Configured
  /\ ApiRequests(n, text)[name] # Unsent
  /\ calls' = calls + 1
  /\ Keep(l, ApiRequests(n, text)[name])
  /\ UNCHANGED <<cfg, custom, channels, broadcasts, report>>

-----------------------------------------------------------------------------
(***************************************************************************)
(* Reports.                                                                *)
(***************************************************************************)
Noise == <<-1>>

\* A newer lidar may have parameters that the SDK does not know.
Unknown == Pair("unknown", 6, Noise)
Empty == Pair("unknown", 0, <<>>)

\* The values of keys, as l sends them; "empty" is a parameter without a value at the end.
PairsOf(l, keys, fault) ==
  LET pairs == [i \in DOMAIN keys |-> Pair(keys[i], ParamSize[keys[i]], store[l][keys[i]])]
  IN <<Unknown>> \o pairs \o (IF fault = "empty" THEN <<Empty>> ELSE <<>>)

\* The network damages the header, or the data.
Sent(pairs, fault) ==
  CASE fault = "header" -> [Pack(pairs) EXCEPT !.damaged = "header"]
    [] fault = "data" -> [Pack(pairs) EXCEPT
                          !.damaged = "data",
                          !.pairs = [i \in DOMAIN @ |-> [@[i] EXCEPT !.value = Noise]]]
    [] OTHER -> Pack(pairs)

Promised(what, keys) ==
  IF what = "push" THEN ToSet(keys) \cap DOMAIN DirectLidarStateInfo ELSE ToSet(keys)

Message(l, what, keys, fault) ==
  [lidar |-> l, what |-> what, port |-> PortsOf[TypeOf[l]].push, fault |-> fault,
   held |-> [k \in Promised(what, keys) |-> store[l][k]], packet |-> Sent(PairsOf(l, keys, fault), fault)]

\* The state information goes to the user as JSON, an answer as it is.
Told(m) ==
  IF m.what = "push" THEN Parse(m.packet)
  ELSE [k \in {p.key : p \in ToSet(m.packet.pairs)} \ {"unknown"} |->
          (CHOOSE p \in ToSet(m.packet.pairs) : p.key = k).value]

PushedFromPushPort(m) == m.what = "push" => m.port = PortsOf[TypeOf[m.lidar]].push

\* OnData, Handler, OnCommandCmd: what is damaged, or not from a command port, is dropped.
Deliver(m) ==
  /\ report' = IF /\ m.lidar \in Configured
                  /\ "command" \in OnData(FALSE, CfgOf(m.lidar), m.port)
                  /\ CheckPreamble(m.packet)
                  /\ PushedFromPushPort(m)
                 THEN [lidar |-> m.lidar, info |-> Told(m), held |-> m.held,
                       malformed |-> m.fault = "empty"]
                 ELSE report
  /\ UNCHANGED <<cfg, custom, channels, broadcasts, store, refused, calls>>

\* A lidar pushes its state information. One that is lost is one that is not sent.
Push(l, keys, fault) == cfg.ok /\ Deliver(Message(l, "push", keys, fault))

\* A lidar answers a query; the answer comes from its command port.
Query(l, what) ==
  /\ l \in Configured
  /\ Deliver([Message(l, "answer", QueryKeys(what, TypeOf[l]), "no")
                EXCEPT !.port = PortsOf[TypeOf[l]].cmd])

Next ==
  \/ \E f \in Files : Load(f)
  \/ \E l \in Lidars : Adopt(l) \/ Configure(l)
  \/ /\ calls < MaxCalls
     /\ \E l \in Lidars, name \in ApiCalls, n \in Numbers, text \in Texts : Call(l, name, n, text)
  \/ \E l \in Lidars, push \in Pushed : Push(l, push[1], push[2])
  \/ \E l \in Lidars, what \in Queries : Query(l, what)

Spec == Init /\ [][Next]_vars

-----------------------------------------------------------------------------
(***************************************************************************)
(* Where the datagrams of a lidar arrive.                                  *)
(***************************************************************************)
Sockets == {channels[k] : k \in DOMAIN channels} \cup broadcasts

IsGroup(ip) == ip[1] \in 224 .. 239

\* The network and the kernel of the host. External. A group is heard where a socket of the
\* host has joined it; a socket that asks for port 0 is given another one.
Hears(s, ip, port) ==
  /\ s.port = port /\ port # 0
  /\ s.bound \in {ip, AnyAddress}
  /\ IsGroup(ip) => \E t \in Sockets : t.group = ip

\* The address that l was told, if it keeps the one of the last configuration.
ToldAddress(l, key) ==
  IF \E p \in ToSet(CfgRequest(CfgOf(l))) : p.key = key /\ store[l][key] = p.value
    THEN <<SubSeq(store[l][key], 1, 4), store[l][key][5]>>
    ELSE <<>>

\* The socket that a command is sent from: GetCmdChannel, GetLoggerCmdChannel.
SenderOf(l, port) ==
  LET key == <<CfgOf(l).host.ip, port>> IN
  IF key \in DOMAIN channels THEN key ELSE <<DetectionIp(cfg), kDetectionPort>>

\* What l sends, with the place it sends it to, and who shall handle it.
Kinds == {"cmd", "push", "point", "imu", "log", "debug"}

Destination(l, kind) ==
  CASE kind = "cmd" -> SenderOf(l, CfgOf(l).host.ports.cmd)
    [] kind = "push" -> ToldAddress(l, "host_state_info")
    [] kind = "point" -> ToldAddress(l, "pointcloud_host_ipcfg")
    [] kind = "imu" -> ToldAddress(l, "imu_host_ipcfg")
    [] kind = "log" -> IF cfg.log THEN SenderOf(l, CfgOf(l).host.ports.log) ELSE <<>>
    [] kind = "debug" -> <<CfgOf(l).host.ip, kHostDebugPointCloudPort>>

HandlerOf ==
  [cmd |-> "command", push |-> "command", point |-> "data", imu |-> "data", log |-> "logger",
   debug |-> "debug"]

Arrives(l, kind) ==
  LET to == Destination(l, kind)
      handlers == OnData(FALSE, CfgOf(l), PortsOf[TypeOf[l]][kind])
  IN /\ \E s \in Sockets : Hears(s, to[1], to[2])
     /\ HandlerOf[kind] \in handlers
     /\ handlers \ {HandlerOf[kind]} \subseteq (IF kind = "log" THEN {"command"} ELSE {})

(***************************************************************************)
(* The files for which data get lost.                                      *)
(***************************************************************************)
\* A host with an address that is none, or with a group for its own address.
HasBadAddress(l) ==
  \/ \E ip \in {CfgOf(l).host.ip, DetectionIp(cfg)} : ~IsAddress(ip) \/ IsGroup(ip)
  \/ ~IsAddress(DataAddress(CfgOf(l)))

\* OnData goes by the ports that the file gives, and the lidar sends from those of its type.
PortsAreMixedUp(l, kind) ==
  LET port == PortsOf[TypeOf[l]][kind]
      ports == CfgOf(l).lidarPorts
  IN \/ kind \in {"cmd", "point", "imu"} /\ port \notin {kDetectionPort, ports[kind]}
     \/ kind \notin {"point", "imu"} /\ port \in {ports.point, ports.imu}
     \/ kind = "debug" /\ port \in {ports.cmd, ports.push, ports.log}

\* A configuration asks for the channel with another group than the one that data are sent to.
IsContended(ip, port, group) ==
  \E c \in ToSet(cfg.custom) : <<ip, port>> \in ChannelsOf(c, cfg) /\ GroupAt(c, port) # group

\* Commands, logs and debug data are sent to the host itself, and the rest to the group, if
\* there is one. The push port is heard by a broadcast socket, once a data socket has joined.
HasNoSocket(c, kind, to) ==
  \/ kind \in {"cmd", "log", "debug"} /\ IsContended(to[1], to[2], NoAddress)
  \/ /\ kind \in {"point", "imu"}
     /\ to[2] \notin DataPorts(c) \/ IsContended(c.host.ip, to[2], c.host.multicast)
  \/ /\ kind = "push"
     /\ \/ to[2] = 0
        \/ /\ c.host.multicast # NoAddress
           /\ \A port \in DataPorts(c) : IsContended(c.host.ip, port, c.host.multicast)

IsLost(l, kind) ==
  HasBadAddress(l) \/ PortsAreMixedUp(l, kind) \/ HasNoSocket(CfgOf(l), kind, Destination(l, kind))

-----------------------------------------------------------------------------
(***************************************************************************)
(* Properties.                                                             *)
(***************************************************************************)
\* What the SDK tells a lidar, what it opens and how it sorts agree: all that a configured
\* lidar sends to where it was told to is heard by a socket, and OnData gives it to the
\* handler of its kind and to no other. IsLost names the files for which this is not so.
DataReachesItsHandler ==
  \A l \in Configured, kind \in Kinds :
    (Destination(l, kind) # <<>> /\ ~IsLost(l, kind)) => Arrives(l, kind)

\* No setter writes a value of another size than the field of the reports has
\* (command_impl.cpp and build_request.cpp against DirectLidarStateInfo).
NeverRefused == refused = {}

\* The user reads exactly the values that the lidar had when it sent the message, those of
\* a report as far as the SDK has a field for them, whatever the network did to it. A
\* parameter without a value at the end costs the whole report.
ReportIsTruthful ==
  report # NoReport =>
    IF report.malformed THEN report.info = NoInfo ELSE report.info = report.held

=============================================================================
