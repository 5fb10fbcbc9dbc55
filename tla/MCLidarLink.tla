----------------------------- MODULE MCLidarLink -----------------------------
(***************************************************************************)
(* A HAP and a Mid360, and files of every form that the samples use, and   *)
(* some that the parser or the check refuse.                               *)
(***************************************************************************)
EXTENDS LidarLink

MCIpOf == [h |-> <<192, 168, 1, 100>>, m |-> <<192, 168, 1, 200>>]
MCTypeOf == [h |-> "hap", m |-> "mid360"]

HostIp5 == <<192, 168, 1, 5>>
Group == <<224, 1, 1, 5>>

HapPorts == [cmd |-> 56000, push |-> 56000, point |-> 57000, imu |-> 58000, log |-> 59000]
MidPorts == [cmd |-> 56101, push |-> 56201, point |-> 56301, imu |-> 56401, log |-> 56501]
LidarPortsOf(type) == [p \in DOMAIN HapPorts |-> PortsOf[type][p]]
OtherPorts == [cmd |-> 1, push |-> 2, point |-> 3, imu |-> 4, log |-> 5]

Host(ip, multicast, ports, ips) ==
  [complete |-> TRUE, hostIp |-> ip, cmdDataIp |-> <<>>, multicast |-> multicast,
   ports |-> ports, lidarIps |-> ips, hasLidarIps |-> ips # <<>>]

Section(form, ports, hosts) ==
  [form |-> form, complete |-> TRUE, ports |-> ports, hosts |-> hosts]
NoSection == Section("none", HapPorts, <<>>)

File(hap, mid360) ==
  [json |-> TRUE, master |-> "none", log |-> "none", logComplete |-> TRUE, hap |-> hap,
   mid360 |-> mid360]

\* As in samples/*/config: one host for all lidars of each type, and logs are kept.
Logging ==
  [File(Section("object", LidarPortsOf("hap"), <<Host(HostIp5, <<>>, HapPorts, <<>>)>>),
        Section("array", LidarPortsOf("mid360"), <<Host(HostIp5, <<>>, MidPorts, <<>>)>>))
   EXCEPT !.log = "true"]

Slave == [Logging EXCEPT !.master = "false", !.hap = NoSection]

\* Both lidars are named, and one of them sends to a group.
Named ==
  File(Section("array", LidarPortsOf("hap"), <<Host(HostIp5, <<>>, HapPorts, <<MCIpOf["h"]>>)>>),
       Section("array", LidarPortsOf("mid360"), <<Host(HostIp5, Group, MidPorts, <<MCIpOf["m"]>>)>>))

\* The old name of host_ip; ports of the lidars that are not those of their types.
Ported ==
  File(Section("array", OtherPorts,
               <<[Host(<<>>, <<>>, HapPorts, <<MCIpOf["h"]>>) EXCEPT !.cmdDataIp = HostIp5]>>),
       Section("array", OtherPorts, <<Host(HostIp5, <<>>, MidPorts, <<>>)>>))

\* Two configurations share the ports of the host, and one of them has a group.
Shared ==
  File(Section("array", LidarPortsOf("hap"), <<Host(HostIp5, <<>>, MidPorts, <<MCIpOf["h"]>>)>>),
       Section("array", LidarPortsOf("mid360"), <<Host(HostIp5, Group, MidPorts, <<MCIpOf["m"]>>)>>))

\* Two groups on one host, and the commands to one lidar from a port for the data of the other.
Crossed ==
  [Named EXCEPT !.hap.hosts[1].multicast = <<224, 1, 1, 6>>, !.mid360.hosts[1].ports.cmd = 57000]

Twice == [Named EXCEPT !.mid360.hosts[1].lidarIps = <<MCIpOf["h"]>>]
NotAGroup == [Named EXCEPT !.mid360.hosts[1].multicast = HostIp5]

MCFiles == {Logging, Slave, Named, Ported, Shared, Crossed, Twice, NotAGroup}
InSomeOrder(keys) == FoldSet(LAMBDA k, order : Append(order, k), <<>>, keys)

\* Every parameter has a value of its own.
MCFactory ==
  LET order == InSomeOrder(Params)
  IN [p \in Params |-> <<CHOOSE i \in DOMAIN order : order[i] = p>>]

MCTexts == {<<192, 168, 1, 7>>, <<10, 0, 256, 1>>, <<1, 2, 3>>}
AllKeys == InSomeOrder(ParsedSettings \cup ParsedStatus)
FewKeys == <<"fov_cfg0", "force_heat_en", "fov_cfg0">>
MCPushed == ({AllKeys} \X {"no", "empty"}) \cup ({FewKeys} \X {"header", "data"})
=============================================================================
