------------------------------ MODULE LidarCfg ------------------------------
(***************************************************************************)
(* What follows from the configuration file: the configurations of lidars  *)
(* that ParseCfgFile reads and ParamsCheck accepts, the request that tells *)
(* a lidar where to send its data, the sockets that DeviceManager opens,   *)
(* and the handler that DeviceManager::OnData gives a datagram to.         *)
(*                                                                         *)
(* An address is the sequence of its parts. A text that is not there is    *)
(* empty, and one that is there is not; a host named "local" is left out.  *)
(* The file is a record: whether it could be parsed, and for each device   *)
(* type the form of its section, the ports and the hosts.                  *)
(***************************************************************************)
EXTENDS LidarKeys

Types == <<"hap", "mid360">>

kDetectionPort == 56000
kHostDebugPointCloudPort == 44332
kLogPort == 0

PortsOf ==
  [hap |-> [cmd |-> 56000, push |-> 56000, point |-> 57000, imu |-> 58000, log |-> 59000,
            debug |-> 60000],
   mid360 |-> [cmd |-> 56100, push |-> 56200, point |-> 56300, imu |-> 56400, log |-> 56500,
               debug |-> 60301]]

DebugPorts == {60301, 60000}
LogPorts == {59000, 1002, 56500}
FaultPort == 10001

-----------------------------------------------------------------------------
(***************************************************************************)
(* ParseCfgFile                                                            *)
(***************************************************************************)
\* What a file may say. The members of a text may be anything; a port is an uint16_t.
Text == Seq(Nat)
PortNames == {"cmd", "push", "point", "imu", "log"}
PortNumbers == 0 .. 65535
Ports == [PortNames -> PortNumbers]
Choice == {"none", "true", "false", "wrong"}

HostType ==
  {host \in [complete : BOOLEAN, hostIp : Text, cmdDataIp : Text, multicast : Text, ports : Ports,
             lidarIps : Seq(Text), hasLidarIps : BOOLEAN] :
     ~host.hasLidarIps => host.lidarIps = <<>>}

\* The old form has one host.
SectionType ==
  {section \in [form : {"none", "array", "object", "wrong"}, complete : BOOLEAN, ports : Ports,
                hosts : Seq(HostType)] :
     section.form = "object" => Len(section.hosts) = 1}

FileType ==
  [json : BOOLEAN, master : Choice, log : Choice, logComplete : BOOLEAN, hap : SectionType,
   mid360 : SectionType]

\* host_ip, or else cmd_data_ip.
HostIp(host) == IF host.hostIp # NoAddress THEN host.hostIp ELSE host.cmdDataIp

HostNetInfo(host) == [ip |-> HostIp(host), multicast |-> host.multicast, ports |-> host.ports]

\* ParseTypeLidarCfg; "complete" says that no member is missing or of another JSON type.
TypeCfg(type, section, host, ip) ==
  [type |-> type, lidarIp |-> ip, lidarPorts |-> section.ports, host |-> HostNetInfo(host)]

HostIsComplete(host) == host.complete /\ HostIp(host) # NoAddress

\* Hosts with a list lidar_ip give configurations of lidars; the others, of the type.
Custom(type, section) ==
  LET Of(host) == [i \in DOMAIN host.lidarIps |-> TypeCfg(type, section, host, host.lidarIps[i])]
  IN FlattenSeq([i \in DOMAIN section.hosts |-> Of(section.hosts[i])])

Typed(type, section) ==
  LET Of(host) ==
        IF host.hasLidarIps THEN <<>> ELSE <<TypeCfg(type, section, host, NoAddress)>>
  IN FlattenSeq([i \in DOMAIN section.hosts |-> Of(section.hosts[i])])

\* The old form is one host, and lidar_ip is not looked at.
OldTyped(type, section) == <<TypeCfg(type, section, section.hosts[1], NoAddress)>>

\* ParseNewLidarCfg does not look at a host with an empty list lidar_ip.
IsRead(host) == host.hasLidarIps => host.lidarIps # <<>>

\* A section that is not there is skipped; one without host_net_info is an error.
SectionIsRight(section) ==
  section.form = "none" \/
    /\ section.form \in {"array", "object"}
    /\ \A host \in ToSet(section.hosts) :
         section.form = "object" \/ IsRead(host) => section.complete /\ HostIsComplete(host)

CustomOf(file, type) ==
  IF file[type].form = "array" THEN Custom(type, file[type]) ELSE <<>>

TypedOf(file, type) ==
  CASE file[type].form = "array" -> Typed(type, file[type])
    [] file[type].form = "object" -> OldTyped(type, file[type])
    [] OTHER -> <<>>

\* master_sdk is true if it is not given; a log is kept if lidar_log_enable says so, and then
\* its size and its path must be given.
SettingsAreRight(file) ==
  /\ file.master \in {"none", "true", "false"}
  /\ file.log \in {"none", "true", "false"}
  /\ file.log # "none" => file.logComplete

Parsed(file) ==
  [ok |-> file.json /\ SettingsAreRight(file) /\ \A i \in DOMAIN Types : SectionIsRight(file[Types[i]]),
   custom |-> CustomOf(file, "hap") \o CustomOf(file, "mid360"),
   typed |-> TypedOf(file, "hap") \o TypedOf(file, "mid360"),
   master |-> file.master # "false",
   log |-> file.log = "true"]

-----------------------------------------------------------------------------
(***************************************************************************)
(* ParamsCheck                                                             *)
(***************************************************************************)
\* No two configurations are of one lidar, and those of the lidars name one.
CheckLidarIp(cfg) ==
  LET ips == [i \in DOMAIN cfg.custom |-> cfg.custom[i].lidarIp]
  IN IsInjective(ips) /\ NoAddress \notin ToSet(ips)

\* The address is compared as a number: 224.0.0.0 is not a group.
InMulticastRange(ip) == ip[1] \in 224 .. 239 /\ ip # <<224, 0, 0, 0>>

CheckMulticast(multicast) ==
  multicast = NoAddress \/
    (IpToU8(multicast) # NoAddress /\ InMulticastRange(IpToU8(multicast)))

CheckLidarMulticastIp(cfg) ==
  \A c \in ToSet(cfg.typed) \cup ToSet(cfg.custom) : CheckMulticast(c.host.multicast)

\* The ports of a Mid360 are fixed.
CheckPort(c) ==
  IF c.type # "mid360" THEN c
  ELSE [c EXCEPT !.lidarPorts = [p \in DOMAIN @ |-> PortsOf["mid360"][p]]]

Checked(cfg) ==
  [cfg EXCEPT !.ok = /\ cfg.ok
                     /\ cfg.typed # <<>> \/ cfg.custom # <<>>
                     /\ CheckLidarIp(cfg)
                     /\ CheckLidarMulticastIp(cfg),
              !.custom = [i \in DOMAIN @ |-> CheckPort(@[i])],
              !.typed = [i \in DOMAIN @ |-> CheckPort(@[i])]]

-----------------------------------------------------------------------------
(***************************************************************************)
(* BuildRequest: where a lidar shall send its data.                        *)
(***************************************************************************)
\* The group, if there is one.
DataAddress(c) == IF c.host.multicast = NoAddress THEN c.host.ip ELSE c.host.multicast

\* The lidar sends from the ports of its type, whatever the file says.
PointAndImu(c) ==
  HostIpInfo("pointcloud_host_ipcfg", DataAddress(c), c.host.ports.point, PortsOf[c.type].point) \o
  HostIpInfo("imu_host_ipcfg", DataAddress(c), c.host.ports.imu, PortsOf[c.type].imu)

BuildUpdateLidarCfgRequest(c) == PointAndImu(c)

BuildUpdateMid360LidarCfgRequest(c) ==
  HostIpInfo("host_state_info", DataAddress(c), c.host.ports.push, PortsOf["mid360"].push) \o
  PointAndImu(c)

\* The request of the command handler of the type.
CfgRequest(c) ==
  IF c.type = "hap" THEN BuildUpdateLidarCfgRequest(c) ELSE BuildUpdateMid360LidarCfgRequest(c)

-----------------------------------------------------------------------------
(***************************************************************************)
(* Sockets.                                                                *)
(***************************************************************************)
AnyAddress == <<0, 0, 0, 0>>
BroadcastAddress == <<255, 255, 255, 255>>

\* inet_addr; what is no address is the address of a broadcast.
InetAddr(text) == IF IsAddress(text) THEN text ELSE BroadcastAddress

Socket(bound, port, group) == [bound |-> bound, port |-> port, group |-> group]

\* CreateSocket: one that joins a group is bound to the group.
CreateSocket(ip, port, multicast) ==
  IF multicast # NoAddress THEN Socket(InetAddr(multicast), port, InetAddr(multicast))
  ELSE Socket(IF ip = BroadcastAddress THEN AnyAddress ELSE InetAddr(ip), port, NoAddress)

BroadcastSocket(port) == Socket(AnyAddress, port, NoAddress)

\* CreateDataChannel, CreateDataSocketAndAddDelegate
DataPorts(c) ==
  {c.host.ports.point, c.host.ports.imu, kHostDebugPointCloudPort} \ {0, kLogPort, kDetectionPort}

\* CreateCommandChannel, CreateCmdSocketAndAddDelegate
CommandPorts(c, cfg) ==
  ((IF cfg.master THEN {c.host.ports.cmd} ELSE {}) \cup {c.host.ports.push} \cup
   (IF cfg.log THEN {c.host.ports.log} ELSE {})) \ {0, kLogPort}

\* The channels that a configuration asks for. A channel is named by address and port.
ChannelsOf(c, cfg) == {c.host.ip} \X (DataPorts(c) \cup CommandPorts(c, cfg))

\* The data channels of a configuration come before its command channels, which join no group.
GroupAt(c, port) == IF port \in DataPorts(c) THEN c.host.multicast ELSE NoAddress

\* The first configuration that asks for a channel creates it.
Opened(cs, cfg) ==
  [k \in UNION {ChannelsOf(c, cfg) : c \in ToSet(cs)} |->
     LET first == cs[Min({i \in DOMAIN cs : k \in ChannelsOf(cs[i], cfg)})]
     IN CreateSocket(k[1], k[2], GroupAt(first, k[2]))]

\* CreateDetectionChannel, before all others.
DetectionIp(cfg) == IF cfg.typed # <<>> THEN cfg.typed[1].host.ip ELSE cfg.custom[1].host.ip

CreateChannels(cfg) ==
  LET detection == <<DetectionIp(cfg), kDetectionPort>>
  IN Over([k \in {detection} |-> CreateSocket(k[1], k[2], NoAddress)], Opened(cfg.custom, cfg))

\* The broadcast sockets: of detection, and of the push port of every Mid360.
Broadcasts(cfgs) ==
  {BroadcastSocket(kDetectionPort)} \cup
    {BroadcastSocket(c.host.ports.push) : c \in {d \in cfgs : d.type = "mid360"}}

-----------------------------------------------------------------------------
(***************************************************************************)
(* DeviceManager::OnData, with a configuration file.                       *)
(***************************************************************************)
\* Mutant of OnData: IMU data are not told from commands.
OnDataNoImu(own, c, port) ==
  IF own THEN {}
  ELSE (IF port \in DebugPorts THEN {"debug"} ELSE {}) \cup
       (IF port \in LogPorts THEN {"logger"} ELSE {}) \cup
       (IF port = c.lidarPorts.point THEN {"data"}
        ELSE IF port \in {kDetectionPort, FaultPort, c.lidarPorts.cmd, c.lidarPorts.push,
                          c.lidarPorts.log} THEN {"command"}
        ELSE {})

\* A datagram from port, of a lidar with configuration c or of the host itself.
OnData(own, c, port) ==
  IF own THEN {}
  ELSE (IF port \in DebugPorts THEN {"debug"} ELSE {}) \cup
       (IF port \in LogPorts THEN {"logger"} ELSE {}) \cup
       (IF port \in {c.lidarPorts.point, c.lidarPorts.imu} THEN {"data"}
        ELSE IF port \in {kDetectionPort, FaultPort, c.lidarPorts.cmd, c.lidarPorts.push,
                          c.lidarPorts.log} THEN {"command"}
        ELSE {})

=============================================================================
