-------------------------- MODULE LidarLink_proofs --------------------------
(***************************************************************************)
(* Proofs about LidarKeys, LidarCfg and LidarLink, for every configuration *)
(* file, all lidars, all values and all lists of parameters.               *)
(*                                                                         *)
(* Two functions of the model are recursive: where the pairs of a message  *)
(* end, and FlattenSeq. What follows each of their values defines them     *)
(* (Recursion), and what goes from each number to the next holds for all   *)
(* (UpTo), because a set of numbers has a least element.                   *)
(***************************************************************************)
EXTENDS LidarLink, WellFoundedInduction, TLAPS

-----------------------------------------------------------------------------
(***************************************************************************)
(* Numbers and recursion.                                                  *)
(***************************************************************************)
\* A set of natural numbers has a least element.
LEMMA LeastNat ==
  ASSUME NEW T, T \subseteq Nat, T # {}
  PROVE  \E x \in T : \A y \in T : x <= y
<1>1. \A x, y \in Nat : y < x => <<y, x>> \in OpToRel(<, Nat)
  BY DEF OpToRel
<1>2. \E R : IsWellFoundedOn(R, Nat) /\ \A x, y \in Nat : y < x => <<y, x>> \in R
  BY <1>1, NatLessThanWellFounded, Zenon
<1>3. PICK R : IsWellFoundedOn(R, Nat) /\ \A x, y \in Nat : y < x => <<y, x>> \in R
  BY <1>2
<1>4. PICK x \in T : \A y \in T : ~(<<y, x>> \in R)
  BY <1>3, WFMin
<1>5. \A y \in T : ~(y < x)
  BY <1>3, <1>4, Zenon
<1> QED
  BY <1>5

\* A set of indices has a greatest element.
LEMMA GreatestIndex ==
  ASSUME NEW n \in Nat, NEW T, T \subseteq 1 .. n, T # {}
  PROVE  \E x \in T : \A y \in T : y <= x
<1> DEFINE D == {n - x : x \in T}
<1>1. PICK x \in T : TRUE
  OBVIOUS
<1>2. n - x \in D
  OBVIOUS
<1>3. D \subseteq Nat
  OBVIOUS
<1> HIDE DEF D
<1>4. PICK d \in D : \A e \in D : d <= e
  BY <1>2, <1>3, LeastNat
<1> USE DEF D
<1>5. PICK y \in T : d = n - y
  BY <1>4
<1>6. \A z \in T : n - y <= n - z
  BY <1>4, <1>5
<1> QED
  BY <1>5, <1>6

\* A set of numbers that holds 0 and goes on up to n holds all of them.
LEMMA UpTo ==
  ASSUME NEW n \in Nat, NEW T, 0 \in T, \A i \in 1 .. n : i - 1 \in T => i \in T
  PROVE  0 .. n \subseteq T
<1> SUFFICES ASSUME ~(0 .. n \subseteq T) PROVE FALSE
  OBVIOUS
<1> DEFINE D == {i \in 0 .. n : i \notin T}
<1>1. D \subseteq Nat /\ D # {}
  OBVIOUS
<1>2. PICK i \in D : \A j \in D : i <= j
  BY <1>1, LeastNat
<1>3. i \in 1 .. n /\ i - 1 \in 0 .. n
  BY <1>2
<1>4. i - 1 \in T
  BY <1>2, <1>3
<1> QED
  BY <1>2, <1>3, <1>4

Steps(n, V) == [(1 .. n) \X V -> V]
Follows(g, n, v, step) == g[0] = v /\ \A i \in 1 .. n : g[i] = step[<<i, g[i - 1]>>]

\* A function of the numbers up to n may be defined by what follows each of its values.
LEMMA Recursion ==
  ASSUME NEW n \in Nat, NEW V, NEW v \in V, NEW step \in Steps(n, V)
  PROVE  \E g \in [0 .. n -> V] : Follows(g, n, v, step)
<1> USE DEF Steps, Follows
<1> DEFINE T == {k \in 0 .. n : \E g \in [0 .. k -> V] : Follows(g, k, v, step)}
<1>1. 0 \in T
  <2>1. \E g \in [0 .. 0 -> V] : g[0] = v
    <3>1. [i \in 0 .. 0 |-> v] \in [0 .. 0 -> V] /\ [i \in 0 .. 0 |-> v][0] = v
      OBVIOUS
    <3> QED
      BY <3>1
  <2> QED
    BY <2>1
<1>2. ASSUME NEW k \in 1 .. n, k - 1 \in T
      PROVE  k \in T
  <2>1. PICK g \in [0 .. k - 1 -> V] : Follows(g, k - 1, v, step)
    BY <1>2
  <2> DEFINE h == [i \in 0 .. k |-> IF i = k THEN step[<<k, g[k - 1]>>] ELSE g[i]]
  <2>2. k - 1 \in 0 .. k - 1 /\ g[k - 1] \in V
    BY <2>1
  <2>3. step[<<k, g[k - 1]>>] \in V
    BY <2>2
  <2>4. h \in [0 .. k -> V]
    BY <2>1, <2>3
  <2>5. h[0] = v
    BY <2>1
  <2>6. ASSUME NEW i \in 1 .. k
        PROVE  h[i] = step[<<i, h[i - 1]>>]
    <3>1. i - 1 \in 0 .. k - 1 /\ i \in 0 .. k
      OBVIOUS
    <3>2. h[i - 1] = g[i - 1]
      BY <3>1
    <3>3. CASE i = k
      BY <3>1, <3>2, <3>3
    <3>4. CASE i # k
      <4>1. i \in 1 .. k - 1 /\ h[i] = g[i]
        BY <3>1, <3>4
      <4>2. g[i] = step[<<i, g[i - 1]>>]
        BY <4>1, <2>1
      <4> QED
        BY <3>2, <4>1, <4>2
    <3> QED
      BY <3>3, <3>4
  <2> HIDE DEF h
  <2>7. k \in 0 .. n
    OBVIOUS
  <2> QED
    BY <2>4, <2>5, <2>6, <2>7
<1>3. 0 .. n \subseteq T
  <2> HIDE DEF T
  <2> QED
    BY <1>1, <1>2, UpTo
<1> QED
  BY <1>3

-----------------------------------------------------------------------------
(***************************************************************************)
(* Messages.                                                               *)
(***************************************************************************)
Lengths(pairs) == Len(pairs) \in Nat /\ \A i \in 1 .. Len(pairs) : pairs[i].len \in Nat

\* Where a pair ends: four bytes and its value after the pair before.
LEMMA EndStep ==
  ASSUME NEW pairs, Lengths(pairs)
  PROVE  /\ End(pairs) \in [0 .. Len(pairs) -> Nat]
         /\ End(pairs)[0] = ListHeader
         /\ \A i \in 1 .. Len(pairs) : End(pairs)[i] = End(pairs)[i - 1] + 4 + pairs[i].len
<1> USE DEF Lengths, ListHeader
<1> DEFINE n == Len(pairs)
           step == [x \in (1 .. n) \X Nat |-> x[2] + 4 + pairs[x[1]].len]
           Def(f) == f = [i \in 0 .. n |-> IF i = 0 THEN 4 ELSE f[i - 1] + 4 + pairs[i].len]
<1>1. step \in Steps(n, Nat)
  BY DEF Steps
<1>2. PICK g \in [0 .. n -> Nat] : Follows(g, n, 4, step)
  <2>1. n \in Nat /\ 4 \in Nat
    OBVIOUS
  <2> HIDE DEF step, n
  <2> QED
    BY <1>1, <2>1, Recursion
<1>3. \A i \in 1 .. n : g[i] = g[i - 1] + 4 + pairs[i].len
  <2> SUFFICES ASSUME NEW i \in 1 .. n PROVE g[i] = g[i - 1] + 4 + pairs[i].len
    OBVIOUS
  <2>1. i - 1 \in 0 .. n
    OBVIOUS
  <2>2. g[i - 1] \in Nat
    BY <2>1
  <2>3. step[<<i, g[i - 1]>>] = g[i - 1] + 4 + pairs[i].len
    BY <2>2
  <2> QED
    BY <2>3, <1>2 DEF Follows
<1>4. Def(g)
  BY <1>2, <1>3 DEF Follows
<1>5. Def(End(pairs))
  <2> HIDE DEF Def
  <2>1. End(pairs) = CHOOSE f : Def(f)
    BY Zenon DEF End, Def
  <2> QED
    BY <1>4, <2>1, Zenon
<1> HIDE DEF Def
<1>6. /\ DOMAIN End(pairs) = 0 .. n
      /\ End(pairs)[0] = 4
      /\ \A i \in 1 .. n : End(pairs)[i] = End(pairs)[i - 1] + 4 + pairs[i].len
  BY <1>5 DEF Def
<1>7. End(pairs) \in [0 .. n -> Nat]
  <2> DEFINE T == {i \in 0 .. n : End(pairs)[i] \in Nat}
  <2>1. 0 \in T
    BY <1>6
  <2>2. ASSUME NEW i \in 1 .. n, i - 1 \in T
        PROVE  i \in T
    <3>1. i \in 0 .. n /\ End(pairs)[i - 1] \in Nat
      BY <2>2
    <3>2. pairs[i].len \in Nat
      OBVIOUS
    <3>3. End(pairs)[i] \in Nat
      BY <1>6, <3>1, <3>2
    <3> QED
      BY <3>1, <3>3
  <2>3. 0 .. n \subseteq T
    <3> HIDE DEF T
    <3> QED
      BY <2>1, <2>2, UpTo
  <2>4. End(pairs) = [i \in 0 .. n |-> End(pairs)[i]]
    BY <1>5 DEF Def
  <2> QED
    BY <2>3, <2>4
<1> QED
  BY <1>6, <1>7

-----------------------------------------------------------------------------
(***************************************************************************)
(* Requests.                                                               *)
(***************************************************************************)
Fits(pairs) == \A p \in ToSet(pairs) : p.len = ParamSize[p.key]
AllFit(requests) == \A name \in DOMAIN requests : Fits(requests[name])

\* The parameters of one byte.
Bytes ==
  {"pcl_data_type", "pattern_mode", "dual_emit_en", "point_send_en", "fov_cfg_en",
   "detect_mode", "work_tgt_mode", "glass_heat", "imu_data_en", "fusa_en", "force_heat_en",
   "work_mode_after_boot"}

\* The sizes of the parameters that the functions of the API and the configuration set.
LEMMA Sizes ==
  /\ \A k \in Bytes : ParamSize[k] = 1
  /\ \A k \in {"host_state_info", "pointcloud_host_ipcfg", "imu_host_ipcfg"} : ParamSize[k] = 8
  /\ ParamSize["lidar_ipcfg"] = 12
  /\ ParamSize["install_attitude"] = 24
  /\ ParamSize["fov_cfg0"] = 20 /\ ParamSize["fov_cfg1"] = 20
  /\ ParamSize["func_io_cfg"] = 4 /\ ParamSize["blind_spot_set"] = 4
  /\ ParamSize["log_param_set"] = 7
BY DEF Bytes, ParamSize, DirectLidarStateInfo, UnreportedParams, Over

\* A request of one parameter, of the size that the lidar keeps.
LEMMA OneFits ==
  ASSUME NEW key, NEW value, NEW len, len = ParamSize[key]
  PROVE  Fits(One(key, len, value))
BY DEF Fits, One, Pair, ToSet

\* A parameter of one byte.
LEMMA ByteFits ==
  ASSUME NEW key \in Bytes, NEW n
  PROVE  Fits(Byte(key, n))
BY Sizes, OneFits DEF Byte

\* A request that is not sent has no pair that could be refused.
LEMMA UnsentFits == Fits(Unsent)
BY DEF Fits, Unsent, ToSet

\* An address of the host, with two ports.
LEMMA HostIpInfoFits ==
  ASSUME NEW key \in {"host_state_info", "pointcloud_host_ipcfg", "imu_host_ipcfg"},
         NEW text, NEW hostPort, NEW lidarPort
  PROVE  Fits(HostIpInfo(key, text, hostPort, lidarPort))
BY Sizes, OneFits, UnsentFits DEF HostIpInfo

\* Requests that are put together.
LEMMA BothFit ==
  ASSUME NEW f, NEW g, AllFit(f), AllFit(g)
  PROVE  AllFit(Over(f, g))
BY DEF AllFit, Over

\* The functions of two requests that are put together.
LEMMA BothNames ==
  ASSUME NEW f, NEW g
  PROVE  DOMAIN Over(f, g) = DOMAIN f \cup DOMAIN g
BY DEF Over

\* They do not depend on the values.
LEMMA SameNames ==
  ASSUME NEW f, NEW g, NEW d, NEW e, DOMAIN f = DOMAIN d, DOMAIN g = DOMAIN e
  PROVE  DOMAIN Over(f, g) = DOMAIN Over(d, e)
<1>1. DOMAIN Over(f, g) = DOMAIN f \cup DOMAIN g
  BY BothNames
<1>2. DOMAIN Over(d, e) = DOMAIN d \cup DOMAIN e
  BY BothNames
<1> QED
  BY <1>1, <1>2

\* The settings of the point cloud.
LEMMA PointFits == ASSUME NEW n PROVE AllFit(PointRequests(n))
BY ByteFits DEF Bytes, AllFit, PointRequests

\* The addresses; what cannot be built is not sent.
LEMMA AddressFits == ASSUME NEW text PROVE AllFit(AddressRequests(text))
BY Sizes, OneFits, UnsentFits, HostIpInfoFits DEF AllFit, AddressRequests, LidarIpInfo

\* The fields of view.
LEMMA FovFits == ASSUME NEW n PROVE AllFit(FovRequests(n))
BY Sizes, OneFits, ByteFits DEF Bytes, AllFit, FovRequests

\* The modes.
LEMMA ModeFits == ASSUME NEW n PROVE AllFit(ModeRequests(n))
BY Sizes, OneFits, ByteFits DEF Bytes, AllFit, ModeRequests

\* The glass heat.
LEMMA HeatFits == ASSUME NEW n PROVE AllFit(HeatRequests(n))
BY ByteFits DEF Bytes, AllFit, HeatRequests

\* The switches that do not depend on a value, and the last settings.
LEMMA SwitchFits ==
  ASSUME NEW n
  PROVE  /\ AllFit(ImuRequests) /\ AllFit(ForcedHeatingRequests)
         /\ AllFit(LogParamRequests(n)) /\ AllFit(BootRequests(n))
BY Sizes, OneFits, ByteFits
   DEF Bytes, AllFit, ImuRequests, ForcedHeatingRequests, LogParamRequests, BootRequests

\* What every function of the API sends has the size of the parameter.
LEMMA ApiFits ==
  ASSUME NEW n, NEW text
  PROVE  AllFit(ApiRequests(n, text)) /\ DOMAIN ApiRequests(n, text) = ApiCalls
<1> DEFINE settings(m, t) ==
             Over(PointRequests(m), Over(AddressRequests(t), Over(FovRequests(m), ModeRequests(m))))
           switches(m) ==
             Over(HeatRequests(m),
                  Over(ImuRequests,
                       Over(ForcedHeatingRequests, Over(LogParamRequests(m), BootRequests(m)))))
           requests(m, t) == Over(settings(m, t), switches(m))
<1>1. AllFit(requests(n, text))
  <2>1. AllFit(settings(n, text))
    BY BothFit, PointFits, AddressFits, FovFits, ModeFits
  <2>2. AllFit(switches(n))
    BY BothFit, HeatFits, SwitchFits
  <2> HIDE DEF settings, switches
  <2> QED
    BY <2>1, <2>2, BothFit
<1>2. \A m, t : DOMAIN requests(m, t) = DOMAIN requests(0, NoAddress)
  <2> SUFFICES ASSUME NEW m, NEW t
               PROVE  DOMAIN requests(m, t) = DOMAIN requests(0, NoAddress)
    OBVIOUS
  <2>1. /\ DOMAIN PointRequests(m) = DOMAIN PointRequests(0)
        /\ DOMAIN AddressRequests(t) = DOMAIN AddressRequests(NoAddress)
        /\ DOMAIN FovRequests(m) = DOMAIN FovRequests(0)
        /\ DOMAIN ModeRequests(m) = DOMAIN ModeRequests(0)
    BY DEF PointRequests, AddressRequests, FovRequests, ModeRequests
  <2>2. /\ DOMAIN HeatRequests(m) = DOMAIN HeatRequests(0)
        /\ DOMAIN LogParamRequests(m) = DOMAIN LogParamRequests(0)
        /\ DOMAIN BootRequests(m) = DOMAIN BootRequests(0)
    BY DEF HeatRequests, LogParamRequests, BootRequests
  <2>3. DOMAIN settings(m, t) = DOMAIN settings(0, NoAddress)
    BY <2>1, SameNames
  <2>4. DOMAIN switches(m) = DOMAIN switches(0)
    BY <2>2, SameNames
  <2> HIDE DEF settings, switches
  <2> QED
    BY <2>3, <2>4, SameNames
<1>3. "EnableLivoxLidarImuData" \in DOMAIN requests(n, text)
  <2>1. "EnableLivoxLidarImuData" \in DOMAIN ImuRequests
    BY DEF ImuRequests
  <2>2. "EnableLivoxLidarImuData" \in DOMAIN switches(n)
    <3> DEFINE last == Over(ForcedHeatingRequests, Over(LogParamRequests(n), BootRequests(n)))
    <3> HIDE DEF last
    <3>1. DOMAIN switches(n) = DOMAIN HeatRequests(n) \cup DOMAIN Over(ImuRequests, last)
      BY BothNames DEF last
    <3>2. DOMAIN Over(ImuRequests, last) = DOMAIN ImuRequests \cup DOMAIN last
      BY BothNames
    <3> QED
      BY <2>1, <3>1, <3>2, Zenon
  <2> HIDE DEF settings, switches
  <2>3. DOMAIN requests(n, text) = DOMAIN settings(n, text) \cup DOMAIN switches(n)
    BY BothNames
  <2> QED
    BY <2>2, <2>3, Zenon
<1>4. \A m, t : ApiRequests(m, t) =
        IF m # 0 THEN requests(m, t)
        ELSE [requests(m, t) EXCEPT
                !["SetLivoxLidarPclDataType"] = requests(m, t)["EnableLivoxLidarImuData"]]
  BY DEF ApiRequests
<1> HIDE DEF requests
<1>5. AllFit(ApiRequests(n, text))
  BY <1>1, <1>3, <1>4 DEF AllFit
<1>6. DOMAIN ApiRequests(n, text) = DOMAIN ApiRequests(0, NoAddress)
  BY <1>2, <1>4
<1> QED
  BY <1>5, <1>6 DEF ApiCalls

\* Two sequences, one after the other.
LEMMA Concat ==
  ASSUME NEW S, NEW s \in Seq(S), NEW t \in Seq(S)
  PROVE  /\ s \o t \in Seq(S) /\ Len(s \o t) = Len(s) + Len(t)
         /\ \A i \in 1 .. Len(s) : (s \o t)[i] = s[i]
         /\ \A i \in 1 .. Len(t) : (s \o t)[Len(s) + i] = t[i]
<1>1. s \o t \in Seq(S) /\ Len(s \o t) = Len(s) + Len(t)
  OBVIOUS
<1>2. \A i \in 1 .. Len(s) : (s \o t)[i] = s[i]
  OBVIOUS
<1>3. \A i \in 1 .. Len(t) : (s \o t)[Len(s) + i] = t[i]
  OBVIOUS
<1> QED
  BY <1>1, <1>2, <1>3

\* The first of two sequences, and what comes after it.
LEMMA FirstOfTwo ==
  ASSUME NEW S, NEW s \in Seq(S), NEW t \in Seq(S), Len(t) > 0
  PROVE  SubSeq(s \o t, 1, Len(s)) = s /\ (s \o t)[Len(s) + 1] = t[1]
<1> DEFINE all == s \o t
           n == Len(s)
<1>1. /\ all \in Seq(S) /\ Len(all) = n + Len(t) /\ n \in Nat /\ Len(t) \in Nat
      /\ \A i \in 1 .. n : all[i] = s[i]
      /\ \A i \in 1 .. Len(t) : all[n + i] = t[i]
  BY Concat
<1> HIDE DEF all, n
<1>2. all[n + 1] = t[1]
  BY <1>1
<1>3. SubSeq(all, 1, n) = [i \in 1 .. n |-> all[i]]
  BY <1>1
<1>4. s = [i \in 1 .. n |-> s[i]]
  BY DEF n
<1>5. SubSeq(all, 1, n) = s
  BY <1>1, <1>3, <1>4
<1> QED
  BY <1>2, <1>5 DEF all, n

\* The elements of two sequences, one after the other.
LEMMA ConcatElements ==
  ASSUME NEW S, NEW s \in Seq(S), NEW t \in Seq(S)
  PROVE  s \o t \in Seq(S) /\ ToSet(s \o t) = ToSet(s) \cup ToSet(t)
<1>1. s \o t \in Seq(S) /\ Len(s \o t) = Len(s) + Len(t)
  BY Concat
<1>2. \A i \in 1 .. Len(s) : (s \o t)[i] = s[i]
  BY Concat
<1>3. \A i \in 1 .. Len(t) : (s \o t)[Len(s) + i] = t[i]
  BY Concat
<1>4. ASSUME NEW x \in ToSet(s \o t)
      PROVE  x \in ToSet(s) \cup ToSet(t)
  <2>1. PICK i \in 1 .. Len(s) + Len(t) : x = (s \o t)[i]
    BY <1>1 DEF ToSet
  <2>2. CASE i <= Len(s)
    BY <2>1, <2>2, <1>2 DEF ToSet
  <2>3. CASE i > Len(s)
    <3>1. i - Len(s) \in 1 .. Len(t) /\ x = t[i - Len(s)]
      BY <2>1, <2>3, <1>3
    <3> QED
      BY <3>1 DEF ToSet
  <2> QED
    BY <2>2, <2>3
<1>5. ASSUME NEW x \in ToSet(s) \cup ToSet(t)
      PROVE  x \in ToSet(s \o t)
  <2>1. CASE x \in ToSet(s)
    <3>1. PICK i \in 1 .. Len(s) : x = s[i]
      BY <2>1 DEF ToSet
    <3>2. i \in 1 .. Len(s \o t) /\ x = (s \o t)[i]
      BY <3>1, <1>1, <1>2
    <3> QED
      BY <3>2, <1>1 DEF ToSet
  <2>2. CASE x \in ToSet(t)
    <3>1. PICK i \in 1 .. Len(t) : x = t[i]
      BY <2>2 DEF ToSet
    <3>2. Len(s) + i \in 1 .. Len(s \o t) /\ x = (s \o t)[Len(s) + i]
      BY <3>1, <1>1, <1>3
    <3> QED
      BY <3>2, <1>1 DEF ToSet
  <2> QED
    BY <2>1, <2>2
<1> QED
  BY <1>1, <1>4, <1>5

\* The pairs of a request that configures a lidar.
HostPair(key, text, hostPort, lidarPort) ==
  Pair(key, 8, IpToU8(text) \o <<hostPort, lidarPort>>)

StatePair(c) ==
  HostPair("host_state_info", DataAddress(c), c.host.ports.push, PortsOf["mid360"].push)
PointPair(c) ==
  HostPair("pointcloud_host_ipcfg", DataAddress(c), c.host.ports.point, PortsOf[c.type].point)
ImuPair(c) ==
  HostPair("imu_host_ipcfg", DataAddress(c), c.host.ports.imu, PortsOf[c.type].imu)

CfgPairs(c) ==
  {PointPair(c), ImuPair(c)} \cup (IF c.type = "hap" THEN {} ELSE {StatePair(c)})

\* The request for one address holds its pair, or nothing.
LEMMA HostIpInfoPair ==
  ASSUME NEW key, NEW text, NEW hostPort, NEW lidarPort, NEW S,
         HostPair(key, text, hostPort, lidarPort) \in S
  PROVE  HostIpInfo(key, text, hostPort, lidarPort) \in Seq(S)
BY DEF HostIpInfo, HostPair, Unsent, One

\* The pairs of the request that configures a lidar (build_request.cpp).
LEMMA CfgRequestPairs ==
  ASSUME NEW c
  PROVE  /\ ToSet(CfgRequest(c)) \subseteq CfgPairs(c)
         /\ IpToU8(DataAddress(c)) = NoAddress => ToSet(CfgRequest(c)) = {}
<1> DEFINE S == CfgPairs(c)
           state == HostIpInfo("host_state_info", DataAddress(c), c.host.ports.push, PortsOf["mid360"].push)
           point == HostIpInfo("pointcloud_host_ipcfg", DataAddress(c), c.host.ports.point, PortsOf[c.type].point)
           imu == HostIpInfo("imu_host_ipcfg", DataAddress(c), c.host.ports.imu, PortsOf[c.type].imu)
<1>1. /\ point \in Seq(S) /\ imu \in Seq(S)
      /\ c.type # "hap" => state \in Seq(S)
  BY HostIpInfoPair DEF CfgPairs, StatePair, PointPair, ImuPair
<1>2. CfgRequest(c) = IF c.type = "hap" THEN point \o imu ELSE state \o (point \o imu)
  BY DEF CfgRequest, BuildUpdateLidarCfgRequest, BuildUpdateMid360LidarCfgRequest, PointAndImu
<1>3. IpToU8(DataAddress(c)) = NoAddress => state = <<>> /\ point = <<>> /\ imu = <<>>
  BY DEF HostIpInfo, Unsent
<1> HIDE DEF S, state, point, imu
<1>4. point \o imu \in Seq(S) /\ ToSet(point \o imu) = ToSet(point) \cup ToSet(imu)
  BY <1>1, ConcatElements
<1>5. c.type # "hap" =>
        /\ state \o (point \o imu) \in Seq(S)
        /\ ToSet(state \o (point \o imu)) = ToSet(state) \cup ToSet(point \o imu)
  <2> SUFFICES ASSUME c.type # "hap"
               PROVE  /\ state \o (point \o imu) \in Seq(S)
                      /\ ToSet(state \o (point \o imu)) = ToSet(state) \cup ToSet(point \o imu)
    OBVIOUS
  <2> DEFINE data == point \o imu
  <2>1. data \in Seq(S)
    BY <1>4
  <2> HIDE DEF data
  <2>2. state \o data \in Seq(S) /\ ToSet(state \o data) = ToSet(state) \cup ToSet(data)
    BY <1>1, <2>1, ConcatElements
  <2> QED
    BY <2>2 DEF data
<1>6. \A s \in Seq(S) : ToSet(s) \subseteq S
  BY DEF ToSet
<1>7. ToSet(<<>>) = {}
  BY DEF ToSet
<1>8. ToSet(CfgRequest(c)) \subseteq S
  BY <1>2, <1>4, <1>5, <1>6
<1>9. IpToU8(DataAddress(c)) = NoAddress => ToSet(CfgRequest(c)) = {}
  BY <1>2, <1>3, <1>4, <1>5, <1>7
<1> QED
  BY <1>8, <1>9 DEF S

\* The request that configures a lidar fits.
LEMMA CfgFits == ASSUME NEW c PROVE Fits(CfgRequest(c))
<1>1. \A p \in CfgPairs(c) : p.len = ParamSize[p.key]
  BY Sizes DEF CfgPairs, StatePair, PointPair, ImuPair, HostPair, Pair
<1> QED
  BY <1>1, CfgRequestPairs DEF Fits

\* What fits is not refused.
LEMMA FitsIsKept ==
  ASSUME NEW l, NEW pairs, Fits(pairs), Keep(l, pairs)
  PROVE  refused' = refused
BY DEF Keep, Accepted, Fits

\* No setter writes a value of another size than the lidar keeps, for all numbers and texts,
\* whatever the configuration says (command_impl.cpp and build_request.cpp).
THEOREM NeverRefusedCorrect == Spec => []NeverRefused
<1>1. Init => NeverRefused
  BY DEF Init, NeverRefused
<1>2. NeverRefused /\ [Next]_vars => NeverRefused'
  <2> SUFFICES ASSUME NeverRefused, [Next]_vars
               PROVE  NeverRefused'
    OBVIOUS
  <2> USE DEF NeverRefused
  <2>1. ASSUME NEW f \in Files, Load(f)
        PROVE  NeverRefused'
    BY <2>1 DEF Load
  <2>2. ASSUME NEW l \in Lidars, Adopt(l)
        PROVE  NeverRefused'
    BY <2>2 DEF Adopt
  <2>3. ASSUME NEW l \in Lidars, Configure(l)
        PROVE  NeverRefused'
    BY <2>3, CfgFits, FitsIsKept DEF Configure
  <2>4. ASSUME NEW l \in Lidars, NEW name \in ApiCalls, NEW n \in Numbers, NEW text \in Texts,
               Call(l, name, n, text)
        PROVE  NeverRefused'
    <3>1. Fits(ApiRequests(n, text)[name])
      BY ApiFits DEF AllFit
    <3> QED
      BY <2>4, <3>1, FitsIsKept DEF Call
  <2>5. ASSUME NEW m, Deliver(m)
        PROVE  NeverRefused'
    BY <2>5 DEF Deliver
  <2>6. CASE UNCHANGED vars
    BY <2>6 DEF vars
  <2> QED
    BY <2>1, <2>2, <2>3, <2>4, <2>5, <2>6 DEF Next, Push, Query
<1> QED
  BY <1>1, <1>2, PTL DEF Spec

-----------------------------------------------------------------------------
(***************************************************************************)
(* Reports.                                                                *)
(***************************************************************************)
\* The fields that are parsed are those of DirectLidarStateInfo, and all of them are written.
LEMMA Fields ==
  /\ ParsedSettings \cup ParsedStatus = DOMAIN DirectLidarStateInfo
  /\ WrittenSettings \cup WrittenModes \cup WrittenStatus = DOMAIN DirectLidarStateInfo
BY DEF ParsedSettings, ParsedStatus, WrittenSettings, WrittenModes, WrittenStatus,
       DirectLidarStateInfo

\* Every parameter has a size, and "unknown" is none of them.
LEMMA ParamSizes ==
  /\ DOMAIN ParamSize = Params
  /\ "unknown" \notin Params
  /\ \A k \in Params : ParamSize[k] \in Nat /\ ParamSize[k] > 0
  /\ DOMAIN DirectLidarStateInfo \subseteq Params
<1>1. DOMAIN ParamSize = DOMAIN DirectLidarStateInfo \cup DOMAIN UnreportedParams
  BY BothNames DEF ParamSize
<1>2. \A k \in DOMAIN DirectLidarStateInfo :
        DirectLidarStateInfo[k] \in Nat /\ DirectLidarStateInfo[k] > 0
  BY DEF DirectLidarStateInfo
<1>3. \A k \in DOMAIN UnreportedParams : UnreportedParams[k] \in Nat /\ UnreportedParams[k] > 0
  BY DEF UnreportedParams
<1>4. "unknown" \notin DOMAIN DirectLidarStateInfo /\ "unknown" \notin DOMAIN UnreportedParams
  BY DEF DirectLidarStateInfo, UnreportedParams
<1>5. \A k \in Params : ParamSize[k] = IF k \in DOMAIN DirectLidarStateInfo
                                         THEN DirectLidarStateInfo[k] ELSE UnreportedParams[k]
  BY <1>1 DEF ParamSize, Params, Over
<1> QED
  BY <1>1, <1>2, <1>3, <1>4, <1>5 DEF Params

\* Without an empty value, every pair has its five bytes before the end.
LEMMA AllWhole ==
  ASSUME NEW pairs, Lengths(pairs), \A i \in 1 .. Len(pairs) : pairs[i].len > 0
  PROVE  IsWhole(Pack(pairs))
<1> DEFINE n == Len(pairs)
           T == {k \in 0 .. n : \A i \in 1 .. k : End(pairs)[i - 1] + 5 <= End(pairs)[k]}
<1>1. n \in Nat
  BY DEF Lengths
<1>2. 0 \in T
  BY <1>1
<1>3. ASSUME NEW k \in 1 .. n, k - 1 \in T
      PROVE  k \in T
  <2>0. k \in 0 .. n
    BY <1>1
  <2> SUFFICES ASSUME NEW i \in 1 .. k
               PROVE  End(pairs)[i - 1] + 5 <= End(pairs)[k]
    BY <2>0
  <2>1. /\ End(pairs)[k] = End(pairs)[k - 1] + 4 + pairs[k].len
        /\ pairs[k].len \in Nat /\ pairs[k].len > 0
        /\ End(pairs)[k - 1] \in Nat
    <3>1. \A j \in 1 .. Len(pairs) : End(pairs)[j] = End(pairs)[j - 1] + 4 + pairs[j].len
      BY EndStep
    <3>2. \A j \in 0 .. Len(pairs) : End(pairs)[j] \in Nat
      BY EndStep
    <3>3. \A j \in 1 .. Len(pairs) : pairs[j].len \in Nat
      BY DEF Lengths
    <3>4. k \in 1 .. Len(pairs) /\ k - 1 \in 0 .. Len(pairs)
      BY <1>1
    <3> HIDE DEF T, n
    <3> QED
      BY <3>1, <3>2, <3>3, <3>4
  <2>2. CASE i = k
    BY <2>1, <2>2
  <2>3. CASE i # k
    <3>1. i \in 1 .. k - 1 /\ i - 1 \in 0 .. n
      BY <1>1, <2>3
    <3>2. End(pairs)[i - 1] + 5 <= End(pairs)[k - 1]
      BY <1>3, <3>1
    <3>3. End(pairs)[i - 1] \in Nat
      BY <3>1, EndStep
    <3>4. End(pairs)[k - 1] <= End(pairs)[k] /\ End(pairs)[k] \in Nat
      BY <2>1
    <3> HIDE DEF T, n
    <3> QED
      BY <2>1, <3>2, <3>3, <3>4
  <2> QED
    BY <2>2, <2>3
<1>4. n \in T
  <2> HIDE DEF T
  <2>1. 0 .. n \subseteq T
    BY <1>1, <1>2, <1>3, UpTo
  <2> QED
    BY <1>1, <2>1
<1>5. PacketDataLen(Pack(pairs)) = End(pairs)[n]
  <2>1. End(pairs)[n] \in Nat
    BY <1>1, EndStep
  <2> QED
    BY <2>1 DEF PacketDataLen, Pack, DataLen, PacketWrapperLen
<1> QED
  BY <1>4, <1>5 DEF IsWhole, KeyValueParam, Pack

\* With an empty value at the end, the last pair has only four.
LEMMA LastCut ==
  ASSUME NEW pairs, Lengths(pairs), Len(pairs) > 0, pairs[Len(pairs)].len = 0
  PROVE  ~IsWhole(Pack(pairs))
<1> DEFINE n == Len(pairs)
<1>1. n \in 1 .. n /\ n - 1 \in 0 .. n
  BY DEF Lengths
<1>2. End(pairs)[n] = End(pairs)[n - 1] + 4 /\ End(pairs)[n - 1] \in Nat
  <2>1. \A i \in 1 .. n : End(pairs)[i] = End(pairs)[i - 1] + 4 + pairs[i].len
    BY EndStep
  <2>2. End(pairs)[n - 1] \in Nat
    BY <1>1, EndStep
  <2>3. End(pairs)[n] = End(pairs)[n - 1] + 4 + pairs[n].len
    BY <1>1, <2>1
  <2> QED
    BY <2>2, <2>3
<1>3. PacketDataLen(Pack(pairs)) = End(pairs)[n]
  BY <1>2 DEF PacketDataLen, Pack, DataLen, PacketWrapperLen
<1> QED
  BY <1>1, <1>2, <1>3 DEF IsWhole, KeyValueParam, Pack

\* The pairs that a lidar sends: one that the SDK does not know, those of the keys, and
\* perhaps an empty one.
LEMMA PairsShape ==
  ASSUME NEW l, NEW keys \in Seq(Params), NEW fault
  PROVE  LET pairs == PairsOf(l, keys, fault)
             n == Len(keys)
         IN /\ Len(pairs) = IF fault = "empty" THEN n + 2 ELSE n + 1
            /\ DOMAIN pairs = 1 .. Len(pairs)
            /\ SubSeq(pairs, 1, Len(pairs)) = pairs
            /\ pairs[1] = Unknown
            /\ \A i \in 1 .. n : pairs[i + 1] = Pair(keys[i], ParamSize[keys[i]], store[l][keys[i]])
            /\ fault = "empty" => pairs[n + 2] = Empty
<1> DEFINE n == Len(keys)
           mid == [i \in DOMAIN keys |-> Pair(keys[i], ParamSize[keys[i]], store[l][keys[i]])]
           last == IF fault = "empty" THEN <<Empty>> ELSE <<>>
           P == {Unknown, Empty} \cup {mid[i] : i \in DOMAIN keys}
           pairs == PairsOf(l, keys, fault)
<1>1. n \in Nat /\ DOMAIN keys = 1 .. n
  OBVIOUS
<1>2. mid \in Seq(P) /\ Len(mid) = n
  <2>1. mid \in [1 .. n -> P]
    BY <1>1
  <2> HIDE DEF mid, P
  <2> QED
    BY <1>1, <2>1
<1>3. <<Unknown>> \in Seq(P)
  OBVIOUS
<1>4. /\ last \in Seq(P)
      /\ Len(last) = IF fault = "empty" THEN 1 ELSE 0
      /\ fault = "empty" => last[1] = Empty
  <2>1. CASE fault = "empty"
    <3>1. last = <<Empty>> /\ Empty \in P
      BY <2>1
    <3> HIDE DEF last, P
    <3> QED
      BY <2>1, <3>1
  <2>2. CASE fault # "empty"
    <3>1. last = <<>>
      BY <2>2
    <3> HIDE DEF last, P
    <3> QED
      BY <2>2, <3>1
  <2> QED
    BY <2>1, <2>2
<1>5. pairs = (<<Unknown>> \o mid) \o last
  BY DEF PairsOf
<1>6. \A i \in 1 .. n : mid[i] = Pair(keys[i], ParamSize[keys[i]], store[l][keys[i]])
  BY <1>1
<1> DEFINE head == <<Unknown>> \o mid
<1> HIDE DEF mid, last, P, pairs
<1>7. /\ head \in Seq(P) /\ Len(head) = n + 1
      /\ head[1] = Unknown
      /\ \A i \in 1 .. n : head[i + 1] = mid[i]
  BY <1>1, <1>2, <1>3
<1> HIDE DEF head
<1>8. /\ head \o last \in Seq(P)
      /\ Len(head \o last) = n + 1 + Len(last)
      /\ \A i \in 1 .. n + 1 : (head \o last)[i] = head[i]
      /\ fault = "empty" => (head \o last)[n + 2] = last[1]
  <2>0. last \in Seq(P) /\ head \in Seq(P) /\ Len(head) = n + 1
    BY <1>4, <1>7
  <2>1. head \o last \in Seq(P) /\ Len(head \o last) = n + 1 + Len(last)
    BY <1>1, <2>0
  <2>2. \A i \in 1 .. Len(head) : (head \o last)[i] = head[i]
    BY <1>4, <1>7
  <2>3. \A i \in 1 .. Len(last) : (head \o last)[Len(head) + i] = last[i]
    BY <1>4, <1>7
  <2>4. fault = "empty" => 1 \in 1 .. Len(last) /\ Len(head) + 1 = n + 2
    BY <1>1, <1>4, <1>7
  <2>5. fault = "empty" => (head \o last)[Len(head) + 1] = last[1]
    BY <2>3, <2>4
  <2> QED
    BY <1>7, <2>1, <2>2, <2>4, <2>5
<1>9. pairs = head \o last
  BY <1>5 DEF head
<1>10. /\ pairs \in Seq(P)
       /\ Len(pairs) = IF fault = "empty" THEN n + 2 ELSE n + 1
       /\ \A i \in 1 .. n + 1 : pairs[i] = head[i]
       /\ fault = "empty" => pairs[n + 2] = Empty
  BY <1>1, <1>4, <1>8, <1>9
<1>11. DOMAIN pairs = 1 .. Len(pairs) /\ SubSeq(pairs, 1, Len(pairs)) = pairs
  BY <1>10
<1>12. pairs[1] = Unknown
  BY <1>1, <1>7, <1>10
<1>13. \A i \in 1 .. n : pairs[i + 1] = Pair(keys[i], ParamSize[keys[i]], store[l][keys[i]])
  BY <1>1, <1>6, <1>7, <1>10
<1> QED
  BY <1>10, <1>11, <1>12, <1>13 DEF pairs

\* What the pairs say: their lengths, and the values of the keys.
Says(pairs, l, keys, fault) ==
  /\ Lengths(pairs) /\ DOMAIN pairs = 1 .. Len(pairs)
  /\ Len(pairs) > 0 /\ SubSeq(pairs, 1, Len(pairs)) = pairs
  /\ {p.key : p \in ToSet(pairs)} = {"unknown"} \cup ToSet(keys)
  /\ \A i \in 1 .. Len(pairs) : pairs[i].key \in Params => pairs[i].value = store[l][pairs[i].key]
  /\ fault = "empty" => pairs[Len(pairs)].len = 0
  /\ fault # "empty" => \A i \in 1 .. Len(pairs) : pairs[i].len > 0

\* The members of a pair.
LEMMA PairFields ==
  ASSUME NEW key, NEW len, NEW value
  PROVE  /\ Pair(key, len, value).key = key
         /\ Pair(key, len, value).len = len
         /\ Pair(key, len, value).value = value
BY DEF Pair

\* The pairs that a lidar sends say what it keeps.
LEMMA PairsSay ==
  ASSUME NEW l, NEW keys \in Seq(Params), NEW fault
  PROVE  Says(PairsOf(l, keys, fault), l, keys, fault)
<1> DEFINE n == Len(keys)
           pairs == PairsOf(l, keys, fault)
<1>1. /\ Len(pairs) = IF fault = "empty" THEN n + 2 ELSE n + 1
      /\ DOMAIN pairs = 1 .. Len(pairs)
      /\ SubSeq(pairs, 1, Len(pairs)) = pairs
      /\ pairs[1] = Unknown
      /\ \A i \in 1 .. n : pairs[i + 1] = Pair(keys[i], ParamSize[keys[i]], store[l][keys[i]])
      /\ fault = "empty" => pairs[n + 2] = Empty
  BY PairsShape
<1>2. n \in Nat /\ DOMAIN keys = 1 .. n /\ \A i \in 1 .. n : keys[i] \in Params
  OBVIOUS
<1>3. /\ Unknown.key = "unknown" /\ Unknown.len = 6
      /\ Empty.key = "unknown" /\ Empty.len = 0
  BY DEF Unknown, Empty, Pair
<1> HIDE DEF pairs, n
<1>4. ASSUME NEW i \in 1 .. n
      PROVE  /\ pairs[i + 1].key = keys[i]
             /\ pairs[i + 1].len = ParamSize[keys[i]]
             /\ pairs[i + 1].value = store[l][keys[i]]
  <2> DEFINE len == ParamSize[keys[i]]
             value == store[l][keys[i]]
             key == keys[i]
             p == pairs[i + 1]
  <2>1. p = Pair(key, len, value)
    BY <1>1
  <2> HIDE DEF p, key, len, value
  <2>2. p.key = key /\ p.len = len /\ p.value = value
    BY <2>1, PairFields
  <2> QED
    BY <2>2 DEF p, key, len, value
<1>5. \A i \in 1 .. Len(pairs) :
        \/ i = 1 /\ pairs[i] = Unknown
        \/ i - 1 \in 1 .. n /\ i = (i - 1) + 1
        \/ fault = "empty" /\ i = Len(pairs) /\ pairs[i] = Empty
  BY <1>1, <1>2
<1>6. ASSUME NEW i \in 1 .. Len(pairs)
      PROVE  /\ pairs[i].len \in Nat
             /\ pairs[i].len > 0 \/ (fault = "empty" /\ i = Len(pairs))
             /\ pairs[i].key \in {"unknown"} \cup ToSet(keys)
             /\ pairs[i].key \in Params => pairs[i].value = store[l][pairs[i].key]
  <2>1. CASE i = 1 /\ pairs[i] = Unknown
    BY <2>1, <1>3, ParamSizes
  <2>2. CASE i - 1 \in 1 .. n /\ i = (i - 1) + 1
    <3>1. /\ pairs[i].key = keys[i - 1] /\ keys[i - 1] \in Params
          /\ pairs[i].len = ParamSize[keys[i - 1]]
          /\ pairs[i].value = store[l][keys[i - 1]]
      BY <2>2, <1>2, <1>4
    <3>2. keys[i - 1] \in ToSet(keys)
      BY <2>2, <1>2 DEF ToSet
    <3> QED
      BY <3>1, <3>2, ParamSizes
  <2>3. CASE fault = "empty" /\ i = Len(pairs) /\ pairs[i] = Empty
    BY <2>3, <1>3, ParamSizes
  <2> QED
    BY <1>5, <2>1, <2>2, <2>3
<1>7. \A k \in {"unknown"} \cup ToSet(keys) : \E i \in 1 .. Len(pairs) : pairs[i].key = k
  <2>1. 1 \in 1 .. Len(pairs) /\ pairs[1].key = "unknown"
    BY <1>1, <1>2, <1>3
  <2>2. ASSUME NEW k \in ToSet(keys)
        PROVE  \E i \in 1 .. Len(pairs) : pairs[i].key = k
    <3>1. PICK i \in 1 .. n : k = keys[i]
      BY <1>2 DEF ToSet
    <3>2. i + 1 \in 1 .. Len(pairs) /\ pairs[i + 1].key = k
      BY <3>1, <1>1, <1>2, <1>4
    <3> QED
      BY <3>2
  <2> QED
    BY <2>1, <2>2
<1>8. {p.key : p \in ToSet(pairs)} = {"unknown"} \cup ToSet(keys)
  <2>1. ToSet(pairs) = {pairs[i] : i \in 1 .. Len(pairs)}
    BY <1>1 DEF ToSet
  <2>2. {p.key : p \in ToSet(pairs)} = {pairs[i].key : i \in 1 .. Len(pairs)}
    BY <2>1
  <2>3. \A i \in 1 .. Len(pairs) : pairs[i].key \in {"unknown"} \cup ToSet(keys)
    BY <1>6
  <2>4. {pairs[i].key : i \in 1 .. Len(pairs)} = {"unknown"} \cup ToSet(keys)
    BY <2>3, <1>7, Zenon
  <2> QED
    BY <2>2, <2>4
<1>9. Len(pairs) \in Nat /\ Len(pairs) > 0
  BY <1>1, <1>2
<1>10. fault = "empty" => pairs[Len(pairs)].len = 0
  BY <1>1, <1>3
<1> QED
  BY <1>1, <1>6, <1>8, <1>9, <1>10 DEF Says, Lengths, pairs

\* What is parsed of a state information: for each key that has a field, the last of its
\* values, and all of them are those of the lidar.
LEMMA ParsedIsHeld ==
  ASSUME NEW l, NEW keys \in Seq(Params), NEW fault
  PROVE  ToJson(ParseStateInfo(Pack(PairsOf(l, keys, fault)))) =
           [k \in ToSet(keys) \cap DOMAIN DirectLidarStateInfo |-> store[l][k]]
<1> DEFINE pairs == PairsOf(l, keys, fault)
           K == ToSet(keys) \cap DOMAIN DirectLidarStateInfo
           IsLast(i, k) == i \in DOMAIN pairs /\ pairs[i].key = k /\ \A j \in i + 1 .. Len(pairs) : pairs[j].key # k
           LastOf(k) == pairs[CHOOSE i \in DOMAIN pairs :
                pairs[i].key = k /\ \A j \in i + 1 .. Len(pairs) : pairs[j].key # k]
<1>1. Says(pairs, l, keys, fault)
  BY PairsSay
<1>2. ParseStateInfo(Pack(pairs)) =
        [k \in {p.key : p \in ToSet(pairs)} \cap DOMAIN DirectLidarStateInfo |-> LastOf(k).value]
  <2>1. SubSeq(pairs, 1, Len(pairs)) = pairs
    BY <1>1 DEF Says
  <2>2. Pack(pairs).pairs = pairs /\ Pack(pairs).keyNum = Len(pairs)
    BY DEF Pack
  <2> DEFINE given == SubSeq(Pack(pairs).pairs, 1, Pack(pairs).keyNum)
             fields == ParsedSettings \cup ParsedStatus
             Result(s, K0) ==
               [k \in {p.key : p \in ToSet(s)} \cap K0 |->
                  s[CHOOSE i \in DOMAIN s :
                      s[i].key = k /\ \A j \in i + 1 .. Len(s) : s[j].key # k].value]
  <2>3. given = pairs
    BY <2>1, <2>2
  <2>4. fields = DOMAIN DirectLidarStateInfo
    BY Fields
  <2>5. ParseStateInfo(Pack(pairs)) = Result(given, fields)
    BY Zenon DEF ParseStateInfo
  <2> HIDE DEF given, fields, Result
  <2>6. ParseStateInfo(Pack(pairs)) = Result(pairs, DOMAIN DirectLidarStateInfo)
    BY <2>3, <2>4, <2>5
  <2> QED
    BY <2>6 DEF Result
<1> HIDE DEF pairs
<1>3. {p.key : p \in ToSet(pairs)} \cap DOMAIN DirectLidarStateInfo = K
  BY <1>1, ParamSizes DEF Says
<1>4. ASSUME NEW k \in K
      PROVE  LastOf(k).value = store[l][k]
  <2> DEFINE n == Len(pairs)
             T == {i \in 1 .. n : pairs[i].key = k}
  <2>1. n \in Nat /\ DOMAIN pairs = 1 .. n
    BY <1>1 DEF Says, Lengths
  <2>2. k \in {p.key : p \in ToSet(pairs)} /\ k \in Params
    BY <1>3, ParamSizes
  <2>3. T # {}
    BY <2>1, <2>2 DEF ToSet
  <2>4. PICK i \in T : \A j \in T : j <= i
    <3> DEFINE P(S) == \E i \in S : \A j \in S : j <= i
    <3>1. T \subseteq 1 .. n
      OBVIOUS
    <3> HIDE DEF T, n
    <3>2. P(T)
      BY <2>1, <2>3, <3>1, GreatestIndex
    <3> QED
      BY <3>2
  <2>5. IsLast(i, k)
    BY <2>1, <2>4
  <2> DEFINE last == CHOOSE x \in DOMAIN pairs :
                pairs[x].key = k /\ \A j \in x + 1 .. Len(pairs) : pairs[j].key # k
  <2>6. last \in DOMAIN pairs /\ pairs[last].key = k
    BY <2>5
  <2> HIDE DEF last
  <2>7. pairs[last].value = store[l][k]
    BY <1>1, <2>1, <2>2, <2>6 DEF Says
  <2> QED
    BY <2>7 DEF last
<1>5. ParseStateInfo(Pack(pairs)) = [k \in K |-> LastOf(k).value]
  BY <1>2, <1>3
<1> HIDE DEF LastOf, K
<1>6. ParseStateInfo(Pack(pairs)) = [k \in K |-> store[l][k]]
  BY <1>4, <1>5
<1>7. K \subseteq DOMAIN DirectLidarStateInfo
  BY DEF K
<1>8. \A f : DOMAIN f = K => ToJson(f) = [k \in K |-> f[k]]
  BY <1>7, Fields DEF ToJson
<1> DEFINE info == [k \in K |-> store[l][k]]
<1>9. DOMAIN info = K /\ info = [k \in K |-> info[k]]
  OBVIOUS
<1> HIDE DEF info
<1>10. ToJson(info) = info
  BY <1>8, <1>9
<1> QED
  BY <1>6, <1>10 DEF info, K, pairs

\* The pairs of an answer, by their keys.
LEMMA AnswerIsHeld ==
  ASSUME NEW l, NEW keys \in Seq(Params)
  PROVE  LET pairs == PairsOf(l, keys, "no")
         IN [k \in {p.key : p \in ToSet(pairs)} \ {"unknown"} |->
               (CHOOSE p \in ToSet(pairs) : p.key = k).value] =
            [k \in ToSet(keys) |-> store[l][k]]
<1> DEFINE pairs == PairsOf(l, keys, "no")
           First(k) == CHOOSE p \in ToSet(pairs) : p.key = k
<1>1. Says(pairs, l, keys, "no")
  BY PairsSay
<1> HIDE DEF pairs
<1>2. ToSet(keys) \subseteq Params
  BY DEF ToSet
<1>3. {p.key : p \in ToSet(pairs)} \ {"unknown"} = ToSet(keys)
  BY <1>1, <1>2, ParamSizes DEF Says
<1>4. ASSUME NEW k \in ToSet(keys)
      PROVE  First(k).value = store[l][k]
  <2>1. \E p \in ToSet(pairs) : p.key = k
    BY <1>3
  <2>2. First(k) \in ToSet(pairs) /\ First(k).key = k
    BY <2>1
  <2> HIDE DEF First
  <2>3. PICK i \in 1 .. Len(pairs) : First(k) = pairs[i]
    BY <1>1, <2>2 DEF ToSet, Says
  <2>4. pairs[i].key = k /\ k \in Params
    BY <1>2, <2>2, <2>3
  <2>5. pairs[i].value = store[l][k]
    BY <1>1, <2>4 DEF Says
  <2> QED
    BY <2>3, <2>5
<1> HIDE DEF First
<1>5. [k \in {p.key : p \in ToSet(pairs)} \ {"unknown"} |-> First(k).value] =
      [k \in ToSet(keys) |-> store[l][k]]
  BY <1>3, <1>4
<1> QED
  BY <1>5 DEF pairs, First

\* What a lidar may be asked for are parameters.
LEMMA QueriedAreParams ==
  ASSUME NEW what \in Queries, NEW type \in ToSet(Types)
  PROVE  QueryKeys(what, type) \in Seq(Params)
<1>1. ToSet(Types) = {"hap", "mid360"}
  BY DEF ToSet, Types
<1>2. DOMAIN DirectLidarStateInfo \cup DOMAIN UnreportedParams = Params
  BY BothNames DEF ParamSize, Params
<1>3. "fw_type" \in Params /\ "version_app" \in Params
  BY <1>2 DEF DirectLidarStateInfo
<1>4. InternalInfoKeys.hap \in Seq(Params)
  BY <1>2 DEF InternalInfoKeys, DirectLidarStateInfo, UnreportedParams
<1>5. InternalInfoKeys.mid360 \in Seq(Params)
  BY <1>2 DEF InternalInfoKeys, DirectLidarStateInfo, UnreportedParams
<1>6. what \in {"QueryLivoxLidarInternalInfo", "QueryLivoxLidarFwType", "QueryLivoxLidarFirmwareVer"}
  BY DEF Queries
<1> QED
  BY <1>1, <1>3, <1>4, <1>5, <1>6 DEF QueryKeys

-----------------------------------------------------------------------------
\* What is told of a message that is not dropped.
IsTruth(m) ==
  CheckPreamble(m.packet) =>
    IF m.fault = "empty" THEN Told(m) = NoInfo ELSE Told(m) = m.held

\* A state information that is not damaged.
LEMMA PushIsTruth ==
  ASSUME NEW l, NEW keys \in Seq(Params), NEW fault \in Faults
  PROVE  IsTruth(Message(l, "push", keys, fault))
<1> DEFINE m == Message(l, "push", keys, fault)
           pairs == PairsOf(l, keys, fault)
<1>1. /\ m.what = "push" /\ m.fault = fault /\ m.packet = Sent(pairs, fault)
      /\ m.held = [k \in ToSet(keys) \cap DOMAIN DirectLidarStateInfo |-> store[l][k]]
  BY DEF Message, Promised
<1>2. Says(pairs, l, keys, fault)
  BY PairsSay
<1>3. ToJson(ParseStateInfo(Pack(pairs))) =
        [k \in ToSet(keys) \cap DOMAIN DirectLidarStateInfo |-> store[l][k]]
  BY ParsedIsHeld
<1>4. Told(m) = Parse(m.packet)
  BY <1>1 DEF Told
<1> HIDE DEF m, pairs
<1>5. CASE fault = "no"
  <2>1. m.packet = Pack(pairs)
    BY <1>1, <1>5 DEF Sent
  <2>2. IsWhole(Pack(pairs))
    BY <1>2, <1>5, AllWhole DEF Says
  <2> QED
    BY <1>1, <1>3, <1>4, <1>5, <2>1, <2>2 DEF IsTruth, Parse, m
<1>6. CASE fault = "empty"
  <2>1. m.packet = Pack(pairs)
    BY <1>1, <1>6 DEF Sent
  <2>2. ~IsWhole(Pack(pairs))
    BY <1>2, <1>6, LastCut DEF Says
  <2>3. Told(m) = NoInfo
    BY <1>4, <2>1, <2>2 DEF Parse
  <2> QED
    BY <1>1, <1>6, <2>3 DEF IsTruth, m
<1>7. CASE fault \in {"header", "data"}
  <2>1. m.packet.damaged = fault
    BY <1>1, <1>7 DEF Sent, Pack
  <2> QED
    BY <1>7, <2>1 DEF IsTruth, CheckPreamble, m
<1> QED
  BY <1>5, <1>6, <1>7 DEF Faults

\* An answer.
LEMMA AnswerIsTruth ==
  ASSUME NEW l, NEW keys \in Seq(Params), NEW port
  PROVE  IsTruth([Message(l, "answer", keys, "no") EXCEPT !.port = port])
<1> DEFINE m == [Message(l, "answer", keys, "no") EXCEPT !.port = port]
           pairs == PairsOf(l, keys, "no")
<1>1. /\ m.what = "answer" /\ m.fault = "no" /\ m.packet = Pack(pairs)
      /\ m.held = [k \in ToSet(keys) |-> store[l][k]]
  BY DEF Message, Promised, Sent
<1>2. [k \in {p.key : p \in ToSet(pairs)} \ {"unknown"} |->
         (CHOOSE p \in ToSet(pairs) : p.key = k).value] =
      [k \in ToSet(keys) |-> store[l][k]]
  BY AnswerIsHeld
<1> HIDE DEF pairs, m
<1>3. m.packet.pairs = pairs
  BY <1>1 DEF Pack
<1>4. Told(m) = [k \in {p.key : p \in ToSet(pairs)} \ {"unknown"} |->
                   (CHOOSE p \in ToSet(pairs) : p.key = k).value]
  BY <1>1, <1>3 DEF Told
<1>5. Told(m) = m.held
  BY <1>1, <1>2, <1>4
<1> QED
  BY <1>1, <1>5 DEF IsTruth, m

\* A delivery tells the user the truth, or nothing.
LEMMA DeliverIsTruthful ==
  ASSUME NEW m, IsTruth(m), ReportIsTruthful, Deliver(m)
  PROVE  ReportIsTruthful'
<1>1. CASE report' = report
  BY <1>1 DEF ReportIsTruthful
<1>2. CASE /\ CheckPreamble(m.packet)
           /\ report' = [lidar |-> m.lidar, info |-> Told(m), held |-> m.held,
                         malformed |-> m.fault = "empty"]
  <2>1. /\ report'.info = Told(m) /\ report'.held = m.held
        /\ report'.malformed = (m.fault = "empty")
    BY <1>2
  <2> QED
    BY <1>2, <2>1 DEF ReportIsTruthful, IsTruth
<1> QED
  BY <1>1, <1>2 DEF Deliver

\* The user reads exactly what the lidar had when it sent the message: parsing a state
\* information (parse_lidar_state_info.cpp) and writing it as JSON, or handing over an answer,
\* neither loses nor changes a field; a damaged message is dropped (both checksums), and one
\* that ends with an empty parameter tells nothing. For all lidars, values and lists of keys.
THEOREM ReportIsTruthfulCorrect == Spec => []ReportIsTruthful
<1>1. Init => ReportIsTruthful
  BY DEF Init, ReportIsTruthful
<1>2. ReportIsTruthful /\ [Next]_vars => ReportIsTruthful'
  <2> SUFFICES ASSUME ReportIsTruthful, [Next]_vars
               PROVE  ReportIsTruthful'
    OBVIOUS
  <2>1. CASE report' = report
    BY <2>1 DEF ReportIsTruthful
  <2>2. ASSUME NEW l \in Lidars, NEW push \in Pushed, Push(l, push[1], push[2])
        PROVE  ReportIsTruthful'
    <3>1. push[1] \in Seq(Params) /\ push[2] \in Faults
      BY LidarLinkAssumption
    <3>2. IsTruth(Message(l, "push", push[1], push[2]))
      BY <3>1, PushIsTruth
    <3> QED
      BY <2>2, <3>2, DeliverIsTruthful DEF Push
  <2>3. ASSUME NEW l \in Lidars, NEW what \in Queries, Query(l, what)
        PROVE  ReportIsTruthful'
    <3> DEFINE keys == QueryKeys(what, TypeOf[l])
               port == PortsOf[TypeOf[l]].cmd
               m == [Message(l, "answer", keys, "no") EXCEPT !.port = port]
    <3>1. TypeOf[l] \in ToSet(Types)
      BY LidarLinkAssumption
    <3>2. keys \in Seq(Params)
      BY <3>1, QueriedAreParams
    <3>3. Deliver(m)
      BY <2>3 DEF Query
    <3> HIDE DEF keys, port
    <3>4. IsTruth(m)
      BY <3>2, AnswerIsTruth
    <3> HIDE DEF m
    <3> QED
      BY <3>3, <3>4, DeliverIsTruthful
  <2>4. ASSUME NEW f \in Files, Load(f)
        PROVE  report' = report
    BY <2>4 DEF Load
  <2>5. ASSUME NEW l \in Lidars, Adopt(l) \/ Configure(l)
        PROVE  report' = report
    BY <2>5 DEF Adopt, Configure
  <2>6. ASSUME NEW l \in Lidars, NEW name \in ApiCalls, NEW n \in Numbers, NEW text \in Texts,
               Call(l, name, n, text)
        PROVE  report' = report
    BY <2>6 DEF Call
  <2>7. CASE UNCHANGED vars
    BY <2>1, <2>7 DEF vars
  <2> QED
    BY <2>1, <2>2, <2>3, <2>4, <2>5, <2>6, <2>7 DEF Next
<1> QED
  BY <1>1, <1>2, PTL DEF Spec

-----------------------------------------------------------------------------
(***************************************************************************)
(* What a configuration makes: the inductive invariant.                    *)
(***************************************************************************)
\* The configurations of lidars, as they are read, and as ParamsCheck leaves them: those of
\* a Mid360 have its ports.
RawCfgs ==
  [type : ToSet(Types), lidarIp : Text, lidarPorts : Ports,
   host : [ip : Text, multicast : Text, ports : Ports]]

Cfgs == {c \in RawCfgs : c.type = "mid360" => c.lidarPorts.push = PortsOf["mid360"].push}

CfgInv ==
  cfg \in [ok : BOOLEAN, custom : Seq(Cfgs), typed : Seq(Cfgs), master : BOOLEAN, log : BOOLEAN]

\* The map of OnData holds nothing that the list for the sockets does not.
CustomInv == \A ip \in DOMAIN custom : cfg.ok /\ custom[ip] \in ToSet(cfg.custom)

\* All that is asked for has a channel, and each channel is as one configuration wanted it.
IsOpenedBy(socket, k, d, c) ==
  k \in ChannelsOf(d, c) /\ socket = CreateSocket(k[1], k[2], GroupAt(d, k[2]))

AreOpened(sockets, c) ==
  LET detection == <<DetectionIp(c), kDetectionPort>> IN
  /\ detection \in DOMAIN sockets
  /\ \A d \in ToSet(c.custom) : ChannelsOf(d, c) \subseteq DOMAIN sockets
  /\ \A k \in DOMAIN sockets :
       \/ k = detection /\ sockets[k] = CreateSocket(k[1], k[2], NoAddress)
       \/ \E d \in ToSet(c.custom) : IsOpenedBy(sockets[k], k, d, c)

ChannelInv == cfg.ok => AreOpened(channels, cfg)

BroadcastInv == cfg.ok => Broadcasts(ToSet(cfg.custom)) \subseteq broadcasts

LinkInv == CfgInv /\ CustomInv /\ ChannelInv /\ BroadcastInv

\* The elements of sequences, one sequence after the other.
LEMMA Flattened ==
  ASSUME NEW S, NEW seqs \in Seq(Seq(S))
  PROVE  FlattenSeq(seqs) \in Seq(S)
<1> DEFINE n == Len(seqs)
           V == Seq(S)
           step == [x \in (1 .. n) \X V |-> IF x[1] = 1 THEN seqs[1] ELSE x[2] \o seqs[x[1]]]
           Def(f) == f = [i \in 1 .. n |-> IF i = 1 THEN seqs[i] ELSE f[i - 1] \o seqs[i]]
           flatten == CHOOSE f : Def(f)
<1>1. n \in Nat /\ \A i \in 1 .. n : seqs[i] \in V
  OBVIOUS
<1>2. CASE n = 0
  BY <1>2 DEF FlattenSeq
<1>3. CASE n # 0
  <2>0. \A s, t \in V : s \o t \in V
    OBVIOUS
  <2>1. step \in Steps(n, V)
    <3> HIDE DEF V, n
    <3>1. \A x \in (1 .. n) \X V : x[1] \in 1 .. n /\ x[2] \in V
      OBVIOUS
    <3>2. 1 \in 1 .. n
      BY <1>1, <1>3
    <3>3. \A x \in (1 .. n) \X V : (IF x[1] = 1 THEN seqs[1] ELSE x[2] \o seqs[x[1]]) \in V
      BY <1>1, <2>0, <3>1, <3>2
    <3> QED
      BY <3>3 DEF Steps
  <2>2. PICK g \in [0 .. n -> V] : Follows(g, n, <<>>, step)
    <3>1. <<>> \in V
      OBVIOUS
    <3> HIDE DEF step, n, V
    <3> QED
      BY <1>1, <2>1, <3>1, Recursion
  <2> DEFINE f == [i \in 1 .. n |-> g[i]]
  <2>3. \A i \in 1 .. n : g[i] = IF i = 1 THEN seqs[i] ELSE g[i - 1] \o seqs[i]
    <3> SUFFICES ASSUME NEW i \in 1 .. n
                 PROVE  g[i] = IF i = 1 THEN seqs[i] ELSE g[i - 1] \o seqs[i]
      OBVIOUS
    <3> HIDE DEF V, n
    <3>1. i - 1 \in 0 .. n
      BY <1>1
    <3>2. <<i, g[i - 1]>> \in (1 .. n) \X V
      BY <3>1
    <3>3. g[i] = step[<<i, g[i - 1]>>]
      BY <2>2 DEF Follows
    <3> QED
      BY <3>2, <3>3
  <2>4. Def(f)
    <3> HIDE DEF V, n
    <3>1. \A i \in 1 .. n : i # 1 => i - 1 \in 1 .. n
      BY <1>1
    <3>2. \A i \in 1 .. n : f[i] = IF i = 1 THEN seqs[i] ELSE f[i - 1] \o seqs[i]
      BY <2>3, <3>1
    <3> QED
      BY <3>2
  <2> HIDE DEF f
  <2>5. Def(flatten)
    <3> HIDE DEF Def
    <3> QED
      BY <2>4, Zenon
  <2>6. FlattenSeq(seqs) = flatten[n]
    BY <1>3, Zenon DEF FlattenSeq
  <2> HIDE DEF flatten, V
  <2>7. \A i \in 1 .. n : flatten[i] = IF i = 1 THEN seqs[i] ELSE flatten[i - 1] \o seqs[i]
    BY <2>5
  <2> DEFINE T == {i \in 0 .. n : i = 0 \/ flatten[i] \in V}
  <2>8. ASSUME NEW i \in 1 .. n, i - 1 \in T
        PROVE  i \in T
    <3>1. i \in 0 .. n
      BY <1>1
    <3>2. CASE i = 1
      BY <1>1, <2>7, <3>1, <3>2
    <3>3. CASE i # 1
      <4>1. flatten[i - 1] \in V /\ seqs[i] \in V
        BY <1>1, <2>8, <3>3
      <4>2. flatten[i] = flatten[i - 1] \o seqs[i]
        BY <2>7, <3>3
      <4>3. flatten[i] \in V
        BY <2>0, <4>1, <4>2
      <4> QED
        BY <3>1, <4>3
    <3> QED
      BY <3>2, <3>3
  <2>9. 0 \in T
    BY <1>1
  <2> HIDE DEF T
  <2>10. 0 .. n \subseteq T
    BY <1>1, <2>8, <2>9, UpTo
  <2>11. n \in T
    BY <1>1, <2>10
  <2> QED
    BY <1>3, <2>6, <2>11 DEF T, V
<1> QED
  BY <1>2, <1>3

\* A host of the file, with the ports of its section, gives a configuration.
LEMMA TypeCfgType ==
  ASSUME NEW type \in ToSet(Types), NEW section \in SectionType, NEW host \in HostType,
         NEW ip \in Text
  PROVE  TypeCfg(type, section, host, ip) \in RawCfgs
<1>1. /\ HostIp(host) \in Text /\ host.multicast \in Text /\ host.ports \in Ports
      /\ section.ports \in Ports
  BY DEF HostIp, HostType, SectionType
<1> HIDE DEF Text, Ports
<1> QED
  BY <1>1 DEF TypeCfg, HostNetInfo, RawCfgs

\* The configurations of lidars, of all hosts of a section.
LEMMA CustomType ==
  ASSUME NEW type \in ToSet(Types), NEW section \in SectionType
  PROVE  Custom(type, section) \in Seq(RawCfgs)
<1> DEFINE Of(host) == [i \in DOMAIN host.lidarIps |-> TypeCfg(type, section, host, host.lidarIps[i])]
<1>1. section.hosts \in Seq(HostType)
  BY DEF SectionType
<1>2. ASSUME NEW host \in HostType
      PROVE  Of(host) \in Seq(RawCfgs)
  <2>1. host.lidarIps \in Seq(Text)
    BY DEF HostType
  <2>2. \A i \in 1 .. Len(host.lidarIps) :
          TypeCfg(type, section, host, host.lidarIps[i]) \in RawCfgs
    BY <2>1, TypeCfgType
  <2> HIDE DEF RawCfgs, Text
  <2> QED
    BY <2>1, <2>2
<1> HIDE DEF Of
<1> DEFINE all == [i \in DOMAIN section.hosts |-> Of(section.hosts[i])]
<1>3. all \in Seq(Seq(RawCfgs))
  <2> HIDE DEF RawCfgs
  <2>1. \A i \in 1 .. Len(section.hosts) : Of(section.hosts[i]) \in Seq(RawCfgs)
    BY <1>1, <1>2
  <2> QED
    BY <1>1, <2>1
<1>4. Custom(type, section) = FlattenSeq(all)
  BY Zenon DEF Custom, Of
<1> HIDE DEF all
<1> QED
  BY <1>3, <1>4, Flattened

\* The configurations of a type.
LEMMA TypedType ==
  ASSUME NEW type \in ToSet(Types), NEW section \in SectionType
  PROVE  Typed(type, section) \in Seq(RawCfgs)
<1> DEFINE Of(host) ==
             IF host.hasLidarIps THEN <<>> ELSE <<TypeCfg(type, section, host, NoAddress)>>
<1>1. section.hosts \in Seq(HostType)
  BY DEF SectionType
<1>2. ASSUME NEW host \in HostType
      PROVE  Of(host) \in Seq(RawCfgs)
  <2>1. NoAddress \in Text
    BY DEF NoAddress, Text
  <2>2. TypeCfg(type, section, host, NoAddress) \in RawCfgs
    BY <2>1, TypeCfgType
  <2> HIDE DEF RawCfgs
  <2> QED
    BY <2>2
<1> HIDE DEF Of
<1> DEFINE all == [i \in DOMAIN section.hosts |-> Of(section.hosts[i])]
<1>3. all \in Seq(Seq(RawCfgs))
  <2> HIDE DEF RawCfgs
  <2>1. \A i \in 1 .. Len(section.hosts) : Of(section.hosts[i]) \in Seq(RawCfgs)
    BY <1>1, <1>2
  <2> QED
    BY <1>1, <2>1
<1>4. Typed(type, section) = FlattenSeq(all)
  BY Zenon DEF Typed, Of
<1> HIDE DEF all
<1> QED
  BY <1>3, <1>4, Flattened

\* The configuration of the old form.
LEMMA OldTypedType ==
  ASSUME NEW type \in ToSet(Types), NEW section \in SectionType, section.form = "object"
  PROVE  OldTyped(type, section) \in Seq(RawCfgs)
<1>1. section.hosts \in Seq(HostType) /\ Len(section.hosts) = 1
  BY DEF SectionType
<1>2. section.hosts[1] \in HostType
  BY <1>1
<1>3. NoAddress \in Text
  BY DEF NoAddress, Text
<1>4. TypeCfg(type, section, section.hosts[1], NoAddress) \in RawCfgs
  BY <1>2, <1>3, TypeCfgType
<1> HIDE DEF RawCfgs
<1> QED
  BY <1>4 DEF OldTyped

\* Both lists of a file.
LEMMA ParsedType ==
  ASSUME NEW file \in FileType
  PROVE  Parsed(file).custom \in Seq(RawCfgs) /\ Parsed(file).typed \in Seq(RawCfgs)
<1>1. file["hap"] \in SectionType /\ file["mid360"] \in SectionType
  BY DEF FileType
<1>2. "hap" \in ToSet(Types) /\ "mid360" \in ToSet(Types)
  BY DEF ToSet, Types
<1>3. <<>> \in Seq(RawCfgs)
  OBVIOUS
<1>4. ASSUME NEW type \in {"hap", "mid360"}
      PROVE  CustomOf(file, type) \in Seq(RawCfgs) /\ TypedOf(file, type) \in Seq(RawCfgs)
  <2>1. file[type] \in SectionType /\ type \in ToSet(Types)
    BY <1>1, <1>2
  <2> HIDE DEF RawCfgs, SectionType
  <2>2. CustomOf(file, type) \in Seq(RawCfgs)
    BY <1>3, <2>1, CustomType DEF CustomOf
  <2>3. TypedOf(file, type) \in Seq(RawCfgs)
    BY <1>3, <2>1, TypedType, OldTypedType DEF TypedOf
  <2> QED
    BY <2>2, <2>3
<1>5. \A s, t \in Seq(RawCfgs) : s \o t \in Seq(RawCfgs)
  OBVIOUS
<1>6. /\ Parsed(file).custom = CustomOf(file, "hap") \o CustomOf(file, "mid360")
      /\ Parsed(file).typed = TypedOf(file, "hap") \o TypedOf(file, "mid360")
  BY DEF Parsed
<1> QED
  BY <1>4, <1>5, <1>6

\* The ports of a Mid360 are ports.
LEMMA FixedPorts ==
  LET fixed == [p \in PortNames |-> PortsOf["mid360"][p]]
  IN fixed \in Ports /\ fixed["push"] = PortsOf["mid360"].push
<1> DEFINE ports == PortsOf["mid360"]
           fixed == [p \in PortNames |-> ports[p]]
<1>1. /\ ports["cmd"] = 56100 /\ ports["push"] = 56200 /\ ports["point"] = 56300
      /\ ports["imu"] = 56400 /\ ports["log"] = 56500
  BY DEF PortsOf
<1> HIDE DEF ports
<1>2. \A p \in PortNames : ports[p] \in PortNumbers
  <2>1. {56100, 56200, 56300, 56400, 56500} \subseteq PortNumbers
    BY DEF PortNumbers
  <2> QED
    BY <1>1, <2>1 DEF PortNames
<1>3. "push" \in PortNames
  BY DEF PortNames
<1>4. fixed \in Ports
  BY <1>2 DEF Ports
<1>5. fixed["push"] = ports["push"]
  BY <1>3
<1> QED
  BY <1>4, <1>5, Zenon DEF ports

\* What CheckPort makes of a configuration.
LEMMA CheckPortType ==
  ASSUME NEW c \in RawCfgs
  PROVE  CheckPort(c) \in Cfgs
<1> DEFINE fixed == [p \in PortNames |-> PortsOf["mid360"][p]]
           ports == c.lidarPorts
<1>1. fixed \in Ports /\ fixed["push"] = PortsOf["mid360"].push
  BY FixedPorts
<1>2. CASE c.type # "mid360"
  BY <1>2 DEF CheckPort, Cfgs, RawCfgs
<1>3. CASE c.type = "mid360"
  <2>1. DOMAIN ports = PortNames
    <3>1. ports \in Ports
      BY DEF RawCfgs
    <3> HIDE DEF ports
    <3> QED
      BY <3>1 DEF Ports
  <2>2. CheckPort(c) = [c EXCEPT !.lidarPorts = fixed]
    BY <1>3, <2>1, Zenon DEF CheckPort
  <2> HIDE DEF fixed
  <2> QED
    BY <1>1, <2>2 DEF RawCfgs, Cfgs
<1> QED
  BY <1>2, <1>3

\* What ParamsCheck leaves of a file.
LEMMA CheckedType ==
  ASSUME NEW file \in FileType
  PROVE  Checked(Parsed(file)) \in
           [ok : BOOLEAN, custom : Seq(Cfgs), typed : Seq(Cfgs), master : BOOLEAN, log : BOOLEAN]
<1> DEFINE parsed == Parsed(file)
           new == Checked(parsed)
           customs == [i \in DOMAIN parsed.custom |-> CheckPort(parsed.custom[i])]
           types == [i \in DOMAIN parsed.typed |-> CheckPort(parsed.typed[i])]
           ok == /\ parsed.ok
                 /\ parsed.typed # <<>> \/ parsed.custom # <<>>
                 /\ CheckLidarIp(parsed)
                 /\ CheckLidarMulticastIp(parsed)
<1>1. parsed.custom \in Seq(RawCfgs) /\ parsed.typed \in Seq(RawCfgs)
  BY ParsedType
<1>2. new = [ok |-> ok, custom |-> customs, typed |-> types, master |-> parsed.master,
             log |-> parsed.log]
  <2>1. parsed = [ok |-> parsed.ok, custom |-> parsed.custom, typed |-> parsed.typed,
                  master |-> parsed.master, log |-> parsed.log]
    BY DEF Parsed
  <2>2. new = [parsed EXCEPT !.ok = ok, !.custom = customs, !.typed = types]
    BY Zenon DEF Checked
  <2> HIDE DEF parsed, new, ok, customs, types
  <2> QED
    BY <2>1, <2>2
<1>3. parsed.master \in BOOLEAN /\ parsed.log \in BOOLEAN
  BY DEF Parsed
<1>4. ok \in BOOLEAN
  OBVIOUS
<1> HIDE DEF parsed, new, ok
<1>5. ASSUME NEW s \in Seq(RawCfgs)
      PROVE  [i \in DOMAIN s |-> CheckPort(s[i])] \in Seq(Cfgs)
  <2>1. \A i \in 1 .. Len(s) : CheckPort(s[i]) \in Cfgs
    BY CheckPortType
  <2> HIDE DEF Cfgs, RawCfgs
  <2> QED
    BY <2>1
<1>6. customs \in Seq(Cfgs) /\ types \in Seq(Cfgs)
  BY <1>1, <1>5
<1> HIDE DEF customs, types, Cfgs
<1>7. new \in [ok : BOOLEAN, custom : Seq(Cfgs), typed : Seq(Cfgs), master : BOOLEAN, log : BOOLEAN]
  BY <1>2, <1>3, <1>4, <1>6
<1> QED
  BY <1>7 DEF new, parsed

-----------------------------------------------------------------------------
(***************************************************************************)
(* Maps and channels.                                                      *)
(***************************************************************************)
\* Min of a set of numbers, as it is used for a set of indices.
LEMMA MinIsMember ==
  ASSUME NEW T, T \subseteq Nat, T # {}
  PROVE  Min(T) \in T
BY LeastNat DEF Min

\* The map of addresses holds configurations of the list.
LEMMA CustomMapMembers ==
  ASSUME NEW cs, NEW ip \in DOMAIN CustomMap(cs)
  PROVE  CustomMap(cs)[ip] \in ToSet(cs)
<1>1. /\ ip \in {c.lidarIp : c \in ToSet(cs)}
      /\ CustomMap(cs)[ip] = CHOOSE c \in ToSet(cs) : c.lidarIp = ip
  BY DEF CustomMap
<1> QED
  BY <1>1

\* The map of types holds configurations of the list, the last of a type.
LEMMA TypeMapMembers ==
  ASSUME NEW S, NEW cs \in Seq(S), NEW t \in DOMAIN TypeMap(cs)
  PROVE  TypeMap(cs)[t] \in S /\ cs # <<>>
<1> DEFINE n == Len(cs)
           T == {i \in 1 .. n : cs[i].type = t}
           IsLast(i) == cs[i].type = t /\ \A j \in DOMAIN cs : cs[j].type = t => j <= i
           last == CHOOSE i \in DOMAIN cs : IsLast(i)
<1>1. n \in Nat /\ DOMAIN cs = 1 .. n
  OBVIOUS
<1>2. t \in {c.type : c \in ToSet(cs)} /\ TypeMap(cs)[t] = cs[last]
  BY DEF TypeMap
<1>3. T # {}
  BY <1>1, <1>2 DEF ToSet
<1>4. PICK i \in T : \A j \in T : j <= i
  <2> DEFINE P(U) == \E i \in U : \A j \in U : j <= i
  <2>1. T \subseteq 1 .. n
    OBVIOUS
  <2> HIDE DEF T, n
  <2>2. P(T)
    BY <1>1, <1>3, <2>1, GreatestIndex
  <2> QED
    BY <2>2
<1>5. i \in DOMAIN cs /\ IsLast(i)
  BY <1>1, <1>4
<1> HIDE DEF IsLast
<1>6. last \in DOMAIN cs
  BY <1>5, Zenon
<1> HIDE DEF last
<1> QED
  BY <1>1, <1>2, <1>6

\* Each channel is opened for the first configuration that asks for it.
LEMMA OpenedBy ==
  ASSUME NEW S, NEW cs \in Seq(S), NEW c
  PROVE  /\ DOMAIN Opened(cs, c) = UNION {ChannelsOf(d, c) : d \in ToSet(cs)}
         /\ \A k \in DOMAIN Opened(cs, c) :
              \E d \in ToSet(cs) : IsOpenedBy(Opened(cs, c)[k], k, d, c)
<1>1. DOMAIN Opened(cs, c) = UNION {ChannelsOf(d, c) : d \in ToSet(cs)}
  BY DEF Opened
<1>2. ASSUME NEW k \in DOMAIN Opened(cs, c)
      PROVE  \E d \in ToSet(cs) : IsOpenedBy(Opened(cs, c)[k], k, d, c)
  <2> DEFINE T == {i \in DOMAIN cs : k \in ChannelsOf(cs[i], c)}
             first == cs[Min(T)]
  <2>1. Opened(cs, c)[k] = CreateSocket(k[1], k[2], GroupAt(first, k[2]))
    BY Zenon DEF Opened
  <2>2. T \subseteq Nat
    OBVIOUS
  <2>3. T # {}
    BY <1>1 DEF ToSet
  <2>4. Min(T) \in T
    <3> HIDE DEF T
    <3> QED
      BY <2>2, <2>3, MinIsMember
  <2>5. first \in ToSet(cs) /\ k \in ChannelsOf(first, c)
    BY <2>4 DEF ToSet
  <2> HIDE DEF first
  <2> QED
    BY <2>1, <2>5 DEF IsOpenedBy
<1> QED
  BY <1>1, <1>2

\* The sockets of a file.
LEMMA CreateChannelsOpens ==
  ASSUME NEW S, NEW c, c.custom \in Seq(S)
  PROVE  AreOpened(CreateChannels(c), c)
<1> DEFINE detection == <<DetectionIp(c), kDetectionPort>>
           first == [k \in {detection} |-> CreateSocket(k[1], k[2], NoAddress)]
           opened == Opened(c.custom, c)
           sockets == CreateChannels(c)
<1>1. sockets = Over(first, opened)
  BY DEF CreateChannels
<1>2. /\ DOMAIN opened = UNION {ChannelsOf(d, c) : d \in ToSet(c.custom)}
      /\ \A k \in DOMAIN opened :
           \E d \in ToSet(c.custom) : IsOpenedBy(opened[k], k, d, c)
  BY OpenedBy
<1>3. /\ DOMAIN first = {detection}
      /\ first[detection] = CreateSocket(detection[1], detection[2], NoAddress)
  OBVIOUS
<1> HIDE DEF detection, first, opened, sockets
<1>4. /\ DOMAIN sockets = {detection} \cup DOMAIN opened
      /\ \A k \in DOMAIN sockets : sockets[k] = IF k = detection THEN first[k] ELSE opened[k]
  BY <1>1, <1>3 DEF Over
<1>5. detection \in DOMAIN sockets
  BY <1>4
<1>6. \A d \in ToSet(c.custom) : ChannelsOf(d, c) \subseteq DOMAIN sockets
  BY <1>2, <1>4
<1>7. ASSUME NEW k \in DOMAIN sockets
      PROVE  \/ k = detection /\ sockets[k] = CreateSocket(k[1], k[2], NoAddress)
             \/ \E d \in ToSet(c.custom) : IsOpenedBy(sockets[k], k, d, c)
  <2>1. CASE k = detection
    BY <2>1, <1>3, <1>4
  <2>2. CASE k # detection
    <3>1. k \in DOMAIN opened /\ sockets[k] = opened[k]
      BY <2>2, <1>4
    <3> QED
      BY <3>1, <1>2
  <2> QED
    BY <2>1, <2>2
<1> QED
  BY <1>5, <1>6, <1>7 DEF AreOpened, detection, sockets

\* The elements of a list to which one is added.
LEMMA AppendElements ==
  ASSUME NEW S, NEW s \in Seq(S), NEW e \in S
  PROVE  /\ Append(s, e) \in Seq(S)
         /\ e \in ToSet(Append(s, e)) /\ ToSet(s) \subseteq ToSet(Append(s, e))
<1> DEFINE all == Append(s, e)
<1>1. /\ all \in Seq(S) /\ Len(all) = Len(s) + 1 /\ Len(s) \in Nat
      /\ all[Len(s) + 1] = e
      /\ \A i \in 1 .. Len(s) : all[i] = s[i]
  OBVIOUS
<1> HIDE DEF all
<1>2. DOMAIN all = 1 .. Len(s) + 1 /\ DOMAIN s = 1 .. Len(s)
  BY <1>1
<1>3. Len(s) + 1 \in DOMAIN all /\ \A i \in DOMAIN s : i \in DOMAIN all
  BY <1>1, <1>2
<1>4. e \in ToSet(all)
  BY <1>1, <1>3 DEF ToSet
<1>5. ASSUME NEW x \in ToSet(s)
      PROVE  x \in ToSet(all)
  <2>1. PICK i \in DOMAIN s : x = s[i]
    BY DEF ToSet
  <2> QED
    BY <1>1, <1>2, <1>3, <2>1 DEF ToSet
<1> QED
  BY <1>1, <1>4, <1>5 DEF all

\* A configuration more opens what is not yet open, and leaves the rest alone.
LEMMA AdoptedOpens ==
  ASSUME NEW S, NEW c, NEW mine \in S, NEW sockets,
         c \in [ok : BOOLEAN, custom : Seq(S), typed : Seq(S), master : BOOLEAN, log : BOOLEAN],
         c.typed # <<>>, AreOpened(sockets, c)
  PROVE  LET all == Append(c.custom, mine)
         IN AreOpened(Over(sockets, Opened(all, c)), [c EXCEPT !.custom = all])
<1> DEFINE all == Append(c.custom, mine)
           d2 == [c EXCEPT !.custom = all]
           opened == Opened(all, c)
           new == Over(sockets, opened)
           detection == <<DetectionIp(c), kDetectionPort>>
<1>1. all \in Seq(S) /\ ToSet(c.custom) \subseteq ToSet(all)
  <2>1. c.custom \in Seq(S)
    OBVIOUS
  <2> QED
    BY <2>1, AppendElements
<1>2. /\ d2.custom = all /\ d2.typed = c.typed /\ d2.master = c.master /\ d2.log = c.log
  OBVIOUS
<1> HIDE DEF all, d2
<1>3. /\ DetectionIp(d2) = DetectionIp(c)
      /\ \A d : ChannelsOf(d, d2) = ChannelsOf(d, c)
  BY <1>2 DEF DetectionIp, ChannelsOf, CommandPorts
<1>4. /\ DOMAIN opened = UNION {ChannelsOf(d, c) : d \in ToSet(all)}
      /\ \A k \in DOMAIN opened : \E d \in ToSet(all) : IsOpenedBy(opened[k], k, d, c)
  BY <1>1, OpenedBy
<1>5. /\ detection \in DOMAIN sockets
      /\ \A k \in DOMAIN sockets :
           \/ k = detection /\ sockets[k] = CreateSocket(k[1], k[2], NoAddress)
           \/ \E d \in ToSet(c.custom) : IsOpenedBy(sockets[k], k, d, c)
  BY DEF AreOpened
<1> HIDE DEF opened, new, detection
<1>6. /\ DOMAIN new = DOMAIN sockets \cup DOMAIN opened
      /\ \A k \in DOMAIN new : new[k] = IF k \in DOMAIN sockets THEN sockets[k] ELSE opened[k]
  BY DEF Over, new
<1>7. detection \in DOMAIN new
  BY <1>5, <1>6
<1>8. \A d \in ToSet(all) : ChannelsOf(d, d2) \subseteq DOMAIN new
  BY <1>3, <1>4, <1>6
<1>9. ASSUME NEW k \in DOMAIN new
      PROVE  \/ k = detection /\ new[k] = CreateSocket(k[1], k[2], NoAddress)
             \/ \E d \in ToSet(all) : IsOpenedBy(new[k], k, d, d2)
  <2>1. \A d \in ToSet(all) : IsOpenedBy(new[k], k, d, c) => IsOpenedBy(new[k], k, d, d2)
    BY <1>3 DEF IsOpenedBy
  <2>2. CASE k \in DOMAIN sockets
    <3>1. new[k] = sockets[k]
      BY <2>2, <1>6
    <3> QED
      BY <1>1, <1>5, <2>1, <2>2, <3>1
  <2>3. CASE k \notin DOMAIN sockets
    <3>1. k \in DOMAIN opened /\ new[k] = opened[k]
      BY <2>3, <1>6
    <3> QED
      BY <1>4, <2>1, <3>1
  <2> QED
    BY <2>2, <2>3
<1>10. detection = <<DetectionIp(d2), kDetectionPort>>
  BY <1>3 DEF detection
<1>11. AreOpened(new, d2)
  BY <1>2, <1>7, <1>8, <1>9, <1>10 DEF AreOpened
<1> QED
  BY <1>11 DEF new, opened, all, d2

-----------------------------------------------------------------------------
\* Nothing is configured and nothing is open.
LEMMA LinkInit == Init => LinkInv
<1> SUFFICES ASSUME Init PROVE LinkInv
  OBVIOUS
<1>1. cfg.ok = FALSE
  BY DEF Init, NoCfg
<1>2. CfgInv
  BY DEF Init, NoCfg, CfgInv
<1>3. DOMAIN custom = {}
  BY DEF Init
<1> QED
  BY <1>1, <1>2, <1>3 DEF LinkInv, CustomInv, ChannelInv, BroadcastInv

\* LivoxLidarSdkInit.
LEMMA LinkLoad ==
  ASSUME NEW f \in Files, Load(f)
  PROVE  LinkInv'
<1> DEFINE new == Checked(Parsed(f))
<1>1. /\ new.ok /\ cfg' = new
      /\ custom' = CustomMap(new.custom)
      /\ channels' = CreateChannels(new)
      /\ broadcasts' = Broadcasts(ToSet(new.custom))
  BY Zenon DEF Load
<1>2. f \in FileType
  BY LidarLinkAssumption
<1>3. new \in [ok : BOOLEAN, custom : Seq(Cfgs), typed : Seq(Cfgs), master : BOOLEAN, log : BOOLEAN]
  BY <1>2, CheckedType
<1> HIDE DEF new
<1>4. CfgInv'
  BY <1>1, <1>3, Zenon DEF CfgInv, Cfgs, RawCfgs
<1>5. CustomInv'
  BY <1>1, CustomMapMembers DEF CustomInv
<1>6. ChannelInv'
  <2>1. new.custom \in Seq(Cfgs)
    BY <1>3
  <2>2. AreOpened(CreateChannels(new), new)
    BY <2>1, CreateChannelsOpens
  <2> QED
    BY <1>1, <2>2 DEF ChannelInv
<1>7. BroadcastInv'
  BY <1>1 DEF BroadcastInv
<1> QED
  BY <1>4, <1>5, <1>6, <1>7 DEF LinkInv

\* The first answer of a lidar that the file does not name.
LEMMA LinkAdopt ==
  ASSUME LinkInv, NEW l \in Lidars, Adopt(l)
  PROVE  LinkInv'
<1> DEFINE types == TypeMap(cfg.typed)
           mine == [types[TypeOf[l]] EXCEPT !.lidarIp = IpOf[l]]
           all == Append(cfg.custom, mine)
<1>1. /\ cfg.ok /\ TypeOf[l] \in DOMAIN types
      /\ custom' = Over([ip \in {IpOf[l]} |-> mine], custom)
      /\ cfg' = [cfg EXCEPT !.custom = all]
      /\ channels' = Over(channels, Opened(all, cfg))
      /\ broadcasts' = broadcasts \cup Broadcasts(ToSet(all))
  BY Zenon DEF Adopt
<1>2. cfg \in [ok : BOOLEAN, custom : Seq(Cfgs), typed : Seq(Cfgs), master : BOOLEAN, log : BOOLEAN]
  BY DEF LinkInv, CfgInv
<1>3. types[TypeOf[l]] \in Cfgs /\ cfg.typed # <<>>
  BY <1>1, <1>2, TypeMapMembers
<1>4. mine \in Cfgs
  <2>1. IpOf[l] \in Text
    BY LidarLinkAssumption
  <2> DEFINE type == types[TypeOf[l]]
  <2>2. type \in Cfgs /\ mine = [type EXCEPT !.lidarIp = IpOf[l]]
    BY <1>3
  <2> HIDE DEF types, type, mine
  <2> QED
    BY <2>1, <2>2 DEF Cfgs, RawCfgs
<1> HIDE DEF types, mine
<1>5. all \in Seq(Cfgs) /\ mine \in ToSet(all) /\ ToSet(cfg.custom) \subseteq ToSet(all)
  <2>1. cfg.custom \in Seq(Cfgs)
    BY <1>2
  <2> HIDE DEF Cfgs
  <2> QED
    BY <1>4, <2>1, AppendElements
<1>6. /\ AreOpened(Over(channels, Opened(all, cfg)), [cfg EXCEPT !.custom = all])
  <2>1. AreOpened(channels, cfg)
    BY <1>1 DEF LinkInv, ChannelInv
  <2> QED
    BY <1>2, <1>3, <1>4, <2>1, AdoptedOpens
<1> HIDE DEF all
<1>7. /\ cfg' \in [ok : BOOLEAN, custom : Seq(Cfgs), typed : Seq(Cfgs), master : BOOLEAN, log : BOOLEAN]
      /\ cfg'.custom = all /\ cfg'.ok
  BY <1>1, <1>2, <1>5
<1>8. CfgInv'
  BY <1>7, Zenon DEF CfgInv, Cfgs, RawCfgs
<1>9. CustomInv'
  <2>1. \A ip \in DOMAIN custom : custom[ip] \in ToSet(cfg.custom)
    BY DEF LinkInv, CustomInv
  <2>2. \A ip \in DOMAIN custom' : custom'[ip] \in {mine} \cup ToSet(cfg.custom)
    BY <1>1, <2>1 DEF Over
  <2> QED
    BY <1>5, <1>7, <2>2 DEF CustomInv
<1>10. ChannelInv'
  BY <1>1, <1>6 DEF ChannelInv
<1>11. BroadcastInv'
  BY <1>1, <1>7 DEF BroadcastInv
<1> QED
  BY <1>8, <1>9, <1>10, <1>11 DEF LinkInv

\* Only a file and a lidar without a configuration of its own change the sockets.
LEMMA LinkOthers ==
  ASSUME LinkInv, UNCHANGED <<cfg, custom, channels, broadcasts>>
  PROVE  LinkInv'
BY DEF LinkInv, CfgInv, CustomInv, ChannelInv, BroadcastInv

\* Every step.
LEMMA LinkNext == LinkInv /\ [Next]_vars => LinkInv'
<1> SUFFICES ASSUME LinkInv, [Next]_vars
             PROVE  LinkInv'
  OBVIOUS
<1>1. ASSUME NEW f \in Files, Load(f)
      PROVE  LinkInv'
  BY <1>1, LinkLoad
<1>2. ASSUME NEW l \in Lidars, Adopt(l)
      PROVE  LinkInv'
  BY <1>2, LinkAdopt
<1>3. ASSUME NEW l \in Lidars, Configure(l)
      PROVE  LinkInv'
  BY <1>3, LinkOthers DEF Configure
<1>4. ASSUME NEW l \in Lidars, NEW name \in ApiCalls, NEW n \in Numbers, NEW text \in Texts,
             Call(l, name, n, text)
      PROVE  LinkInv'
  BY <1>4, LinkOthers DEF Call
<1>5. ASSUME NEW m, Deliver(m)
      PROVE  LinkInv'
  BY <1>5, LinkOthers DEF Deliver
<1>6. CASE UNCHANGED vars
  BY <1>6, LinkOthers DEF vars
<1> QED
  BY <1>1, <1>2, <1>3, <1>4, <1>5, <1>6 DEF Next, Push, Query

\* For every configuration file and every order of first answers, OnData's map, the list of
\* configurations and the sockets go together (ParseCfgFile, ParamsCheck, CreateChannel).
THEOREM LinkInvariant == Spec => []LinkInv
BY LinkInit, LinkNext, PTL DEF Spec

-----------------------------------------------------------------------------
(***************************************************************************)
(* What a configured lidar sends arrives.                                  *)
(***************************************************************************)
\* The configuration of a lidar is one that the sockets were opened for.
LEMMA ConfigOfLidar ==
  ASSUME LinkInv, NEW l \in Configured
  PROVE  /\ cfg.ok /\ AreOpened(channels, cfg)
         /\ Broadcasts(ToSet(cfg.custom)) \subseteq broadcasts
         /\ CfgOf(l) \in ToSet(cfg.custom) /\ CfgOf(l) \in Cfgs
<1>1. cfg.ok /\ CfgOf(l) \in ToSet(cfg.custom)
  BY DEF LinkInv, CustomInv, Configured, CfgOf
<1>2. ToSet(cfg.custom) \subseteq Cfgs
  <2>1. cfg.custom \in Seq(Cfgs)
    BY DEF LinkInv, CfgInv
  <2> QED
    BY <2>1 DEF ToSet
<1> QED
  BY <1>1, <1>2 DEF LinkInv, ChannelInv, BroadcastInv

\* An address goes to the lidar as it is.
LEMMA AddressIsKept ==
  ASSUME NEW text, IsAddress(text), NEW hostPort, NEW lidarPort
  PROVE  /\ IpToU8(text) = text
         /\ SubSeq(text \o <<hostPort, lidarPort>>, 1, 4) = text
         /\ (text \o <<hostPort, lidarPort>>)[5] = hostPort
<1>1. text \in [1 .. 4 -> 0 .. 255]
  BY DEF IsAddress
<1>2. IpToU8(text) = text
  <2>1. text \in [1 .. 4 -> 0 .. 256]
    BY <1>1
  <2>2. IpToU8(text) = [i \in 1 .. 4 |-> text[i] % 256]
    BY <2>1, Zenon DEF IpToU8
  <2>3. \A i \in 1 .. 4 : text[i] % 256 = text[i]
    BY <1>1
  <2> QED
    BY <1>1, <2>2, <2>3
<1> DEFINE S == (0 .. 255) \cup {hostPort, lidarPort}
           ports == <<hostPort, lidarPort>>
           n == 4
<1>3. n \in Nat /\ text \in [1 .. n -> S]
  BY <1>1
<1>4. ports \in Seq(S) /\ Len(ports) = 2 /\ ports[1] = hostPort
  OBVIOUS
<1>5. text \o <<hostPort, lidarPort>> = text \o ports
  OBVIOUS
<1> HIDE DEF S, ports, n
<1>6. text \in Seq(S) /\ Len(text) = n
  BY <1>3
<1>7. /\ SubSeq(text \o ports, 1, Len(text)) = text
      /\ (text \o ports)[Len(text) + 1] = ports[1]
  <2>1. text \in Seq(S)
    BY <1>6
  <2>2. ports \in Seq(S)
    BY <1>4
  <2>3. Len(ports) > 0
    BY <1>4
  <2> QED
    BY <2>1, <2>2, <2>3, FirstOfTwo, Zenon
<1>8. n = 4 /\ n + 1 = 5
  BY DEF n
<1> QED
  BY <1>2, <1>4, <1>5, <1>6, <1>7, <1>8
\* The address of the last configuration, if a lidar keeps it.
LEMMA ToldAddressIs ==
  ASSUME NEW l, NEW key, ToldAddress(l, key) # <<>>, IsAddress(DataAddress(CfgOf(l)))
  PROVE  LET c == CfgOf(l)
             to == ToldAddress(l, key)
         IN /\ key = "host_state_info" => c.type # "hap" /\ to = <<DataAddress(c), c.host.ports.push>>
            /\ key = "pointcloud_host_ipcfg" => to = <<DataAddress(c), c.host.ports.point>>
            /\ key = "imu_host_ipcfg" => to = <<DataAddress(c), c.host.ports.imu>>
<1> DEFINE c == CfgOf(l)
           kept == store[l][key]
           to == ToldAddress(l, key)
<1>1. PICK p \in ToSet(CfgRequest(c)) : p.key = key /\ kept = p.value
  BY DEF ToldAddress
<1>2. to = <<SubSeq(p.value, 1, 4), p.value[5]>>
  BY <1>1 DEF ToldAddress
<1> HIDE DEF kept, to
<1>3. p \in CfgPairs(c)
  BY <1>1, CfgRequestPairs
<1>4. ASSUME NEW name, NEW hostPort, NEW lidarPort, p = HostPair(name, DataAddress(c), hostPort, lidarPort)
      PROVE  key = name /\ to = <<DataAddress(c), hostPort>>
  <2> DEFINE text == DataAddress(c)
             value == text \o <<hostPort, lidarPort>>
  <2>1. IsAddress(text) /\ IpToU8(text) = text /\ SubSeq(value, 1, 4) = text /\ value[5] = hostPort
    BY AddressIsKept
  <2>2. p = Pair(name, 8, value)
    BY <1>4, <2>1, Zenon DEF HostPair
  <2> HIDE DEF text, value
  <2>3. p.key = name /\ p.value = value
    BY <2>2, PairFields
  <2>4. to = <<text, hostPort>>
    BY <1>2, <2>1, <2>3
  <2> QED
    BY <1>1, <2>3, <2>4 DEF text
<1>5. CASE p = PointPair(c)
  <2>1. key = "pointcloud_host_ipcfg" /\ to = <<DataAddress(c), c.host.ports.point>>
    BY <1>4, <1>5 DEF PointPair
  <2> QED
    BY <2>1 DEF to
<1>6. CASE p = ImuPair(c)
  <2>1. key = "imu_host_ipcfg" /\ to = <<DataAddress(c), c.host.ports.imu>>
    BY <1>4, <1>6 DEF ImuPair
  <2> QED
    BY <2>1 DEF to
<1>7. CASE p = StatePair(c) /\ c.type # "hap"
  <2>1. key = "host_state_info" /\ to = <<DataAddress(c), c.host.ports.push>>
    BY <1>4, <1>7 DEF StatePair
  <2> QED
    BY <1>7, <2>1 DEF to
<1> QED
  BY <1>3, <1>5, <1>6, <1>7 DEF CfgPairs

\* A channel that no configuration wants for a group is heard at its own address.
LEMMA HeardDirectly ==
  ASSUME AreOpened(channels, cfg), NEW to \in DOMAIN channels,
         IsAddress(to[1]), ~IsGroup(to[1]), ~IsContended(to[1], to[2], NoAddress)
  PROVE  \E s \in Sockets : Hears(s, to[1], to[2])
<1> DEFINE s == channels[to]
<1>1. s = CreateSocket(to[1], to[2], NoAddress) /\ to[2] # 0
  <2>1. CASE /\ to = <<DetectionIp(cfg), kDetectionPort>>
             /\ s = CreateSocket(to[1], to[2], NoAddress)
    BY <2>1 DEF kDetectionPort
  <2>2. ASSUME NEW d \in ToSet(cfg.custom), IsOpenedBy(s, to, d, cfg)
        PROVE  s = CreateSocket(to[1], to[2], NoAddress) /\ to[2] # 0
    <3>1. to \in ChannelsOf(d, cfg) /\ s = CreateSocket(to[1], to[2], GroupAt(d, to[2]))
      BY <2>2 DEF IsOpenedBy
    <3>2. to = <<to[1], to[2]>> /\ to[2] # 0
      BY <3>1 DEF ChannelsOf, DataPorts, CommandPorts
    <3>3. GroupAt(d, to[2]) = NoAddress
      BY <3>1, <3>2 DEF IsContended
    <3> QED
      BY <3>1, <3>2, <3>3
  <2> QED
    BY <2>1, <2>2 DEF AreOpened
<1>2. s.port = to[2] /\ s.bound \in {to[1], AnyAddress}
  BY <1>1 DEF CreateSocket, Socket, InetAddr
<1>3. s \in Sockets
  BY DEF Sockets
<1> HIDE DEF s
<1> QED
  BY <1>1, <1>2, <1>3 DEF Hears

\* A data channel that is not contended joins the group of its configuration.
LEMMA DataSocket ==
  ASSUME AreOpened(channels, cfg), NEW c \in ToSet(cfg.custom), NEW port \in DataPorts(c),
         ~IsContended(c.host.ip, port, c.host.multicast)
  PROVE  CreateSocket(c.host.ip, port, c.host.multicast) \in Sockets /\ port # 0
<1> DEFINE k == <<c.host.ip, port>>
<1>1. k \in ChannelsOf(c, cfg)
  BY DEF ChannelsOf
<1>2. k \in DOMAIN channels
  BY <1>1 DEF AreOpened
<1>3. port # 0 /\ port # kDetectionPort
  BY DEF DataPorts
<1>4. k # <<DetectionIp(cfg), kDetectionPort>>
  BY <1>3
<1>5. k[1] = c.host.ip /\ k[2] = port
  OBVIOUS
<1> HIDE DEF k
<1>6. PICK d \in ToSet(cfg.custom) : IsOpenedBy(channels[k], k, d, cfg)
  BY <1>2, <1>4 DEF AreOpened
<1>7. GroupAt(d, port) = c.host.multicast
  BY <1>6 DEF IsContended, IsOpenedBy, k
<1>8. channels[k] = CreateSocket(c.host.ip, port, c.host.multicast)
  BY <1>5, <1>6, <1>7 DEF IsOpenedBy
<1> QED
  BY <1>2, <1>3, <1>8 DEF Sockets

\* A socket that has joined the group of a configuration, or is bound to the host.
LEMMA DataSocketFields ==
  ASSUME NEW c, NEW port, IsAddress(DataAddress(c))
  PROVE  LET s == CreateSocket(c.host.ip, port, c.host.multicast)
         IN /\ s.port = port /\ s.bound \in {DataAddress(c), AnyAddress}
            /\ c.host.multicast # NoAddress => s.group = DataAddress(c)
<1>1. CASE c.host.multicast # NoAddress
  BY <1>1 DEF DataAddress, CreateSocket, Socket, InetAddr
<1>2. CASE c.host.multicast = NoAddress
  BY <1>2 DEF DataAddress, CreateSocket, Socket, InetAddr
<1> QED
  BY <1>1, <1>2

\* OnData gives a datagram to the handler of its kind alone, if the ports are not mixed up.
LEMMA HandledAlone ==
  ASSUME NEW l \in Lidars, NEW kind \in Kinds, ~PortsAreMixedUp(l, kind),
         kind = "push" => TypeOf[l] = "hap" \/ CfgOf(l).lidarPorts.push = PortsOf["mid360"].push
  PROVE  LET handlers == OnData(FALSE, CfgOf(l), PortsOf[TypeOf[l]][kind])
         IN /\ HandlerOf[kind] \in handlers
            /\ handlers \ {HandlerOf[kind]} \subseteq (IF kind = "log" THEN {"command"} ELSE {})
<1> DEFINE port == PortsOf[TypeOf[l]][kind]
           ports == CfgOf(l).lidarPorts
           handlers == OnData(FALSE, CfgOf(l), port)
           special == (IF port \in DebugPorts THEN {"debug"} ELSE {}) \cup
                      (IF port \in LogPorts THEN {"logger"} ELSE {})
           isData == port \in {ports.point, ports.imu}
           Alone == /\ HandlerOf[kind] \in handlers
                    /\ handlers \ {HandlerOf[kind]} \subseteq (IF kind = "log" THEN {"command"} ELSE {})
           isCommand == port \in {kDetectionPort, FaultPort, ports.cmd, ports.push, ports.log}
<1>1. TypeOf[l] \in {"hap", "mid360"}
  <2>1. TypeOf[l] \in ToSet(Types)
    BY LidarLinkAssumption
  <2>2. ToSet(Types) = {"hap", "mid360"}
    BY DEF ToSet, Types
  <2> QED
    BY <2>1, <2>2
<1>2. port \in CASE kind = "cmd" -> {56000, 56100}
                 [] kind = "push" -> {56000, 56200}
                 [] kind = "point" -> {57000, 56300}
                 [] kind = "imu" -> {58000, 56400}
                 [] kind = "log" -> {59000, 56500}
                 [] kind = "debug" -> {60000, 60301}
  BY <1>1 DEF Kinds, PortsOf
<1>3. handlers = special \cup (IF isData THEN {"data"} ELSE IF isCommand THEN {"command"} ELSE {})
  BY Zenon DEF OnData
<1>4. /\ kind \in {"cmd", "point", "imu"} => port \in {kDetectionPort, ports[kind]}
      /\ kind \notin {"point", "imu"} => ~isData
      /\ kind = "debug" => port \notin {ports.cmd, ports.push, ports.log}
  BY DEF PortsAreMixedUp
<1>5. kind = "push" => port \in {kDetectionPort, ports.push}
  BY <1>1 DEF PortsOf, kDetectionPort
<1> HIDE DEF port, ports, handlers
<1>6. ASSUME kind \in {"cmd", "push"}
      PROVE  Alone
  <2>1. special = {}
    BY <1>2, <1>6 DEF DebugPorts, LogPorts
  <2>2. ~isData /\ isCommand
    BY <1>4, <1>5, <1>6
  <2>3. handlers = {"command"}
    BY <1>3, <2>1, <2>2
  <2> QED
    BY <1>6, <2>3 DEF HandlerOf
<1>7. ASSUME kind \in {"point", "imu"}
      PROVE  Alone
  <2>1. special = {} /\ port # kDetectionPort
    BY <1>2, <1>7 DEF DebugPorts, LogPorts, kDetectionPort
  <2>2. isData
    BY <1>4, <1>7, <2>1
  <2>3. handlers = {"data"}
    BY <1>3, <2>1, <2>2
  <2> QED
    BY <1>7, <2>3 DEF HandlerOf
<1>8. ASSUME kind = "log"
      PROVE  Alone
  <2>1. special = {"logger"}
    BY <1>2, <1>8 DEF DebugPorts, LogPorts
  <2>2. ~isData
    BY <1>4, <1>8
  <2>3. handlers \subseteq {"logger", "command"} /\ "logger" \in handlers
    BY <1>3, <2>1, <2>2
  <2> QED
    BY <1>8, <2>3 DEF HandlerOf
<1>9. ASSUME kind = "debug"
      PROVE  Alone
  <2>1. special = {"debug"} /\ port \notin {kDetectionPort, FaultPort}
    BY <1>2, <1>9 DEF DebugPorts, LogPorts, kDetectionPort, FaultPort
  <2>2. ~isData /\ ~isCommand
    BY <1>4, <1>9, <2>1
  <2>3. handlers = {"debug"}
    BY <1>3, <2>1, <2>2
  <2> QED
    BY <1>9, <2>3 DEF HandlerOf
<1>10. Alone
  BY <1>6, <1>7, <1>8, <1>9 DEF Kinds
<1> QED
  BY <1>10 DEF handlers, port

\* A socket hears what is sent to the address of the data.
LEMMA HeardFrom ==
  ASSUME NEW s \in Sockets, NEW ip, NEW port, s.port = port, port # 0,
         s.bound \in {ip, AnyAddress}, IsGroup(ip) => \E t \in Sockets : t.group = ip
  PROVE  \E x \in Sockets : Hears(x, ip, port)
BY DEF Hears

\* What a configured lidar sends to where it was told is heard.
LEMMA IsHeard ==
  ASSUME LinkInv, NEW l \in Configured, NEW kind \in Kinds, Destination(l, kind) # <<>>,
         ~HasBadAddress(l), ~HasNoSocket(CfgOf(l), kind, Destination(l, kind))
  PROVE  LET to == Destination(l, kind) IN \E s \in Sockets : Hears(s, to[1], to[2])
<1> DEFINE c == CfgOf(l)
           to == Destination(l, kind)
           Heard == \E s \in Sockets : Hears(s, to[1], to[2])
<1>1. /\ cfg.ok /\ AreOpened(channels, cfg)
      /\ Broadcasts(ToSet(cfg.custom)) \subseteq broadcasts
      /\ c \in ToSet(cfg.custom) /\ c \in Cfgs
  BY ConfigOfLidar
<1>2. /\ IsAddress(c.host.ip) /\ ~IsGroup(c.host.ip)
      /\ IsAddress(DetectionIp(cfg)) /\ ~IsGroup(DetectionIp(cfg))
      /\ IsAddress(DataAddress(c))
  BY DEF HasBadAddress
<1>3. /\ kind \in {"cmd", "log", "debug"} => ~IsContended(to[1], to[2], NoAddress)
      /\ kind \in {"point", "imu"} =>
           to[2] \in DataPorts(c) /\ ~IsContended(c.host.ip, to[2], c.host.multicast)
      /\ kind = "push" =>
           /\ to[2] # 0
           /\ c.host.multicast # NoAddress =>
                \E port \in DataPorts(c) : ~IsContended(c.host.ip, port, c.host.multicast)
  BY DEF HasNoSocket
<1>4. ASSUME NEW port
      PROVE  /\ SenderOf(l, port) \in DOMAIN channels
             /\ SenderOf(l, port)[1] \in {c.host.ip, DetectionIp(cfg)}
  <2>1. <<DetectionIp(cfg), kDetectionPort>> \in DOMAIN channels
    BY <1>1 DEF AreOpened
  <2>2. SenderOf(l, port) \in {<<c.host.ip, port>>, <<DetectionIp(cfg), kDetectionPort>>}
    BY DEF SenderOf
  <2>3. SenderOf(l, port) \in DOMAIN channels
    BY <2>1 DEF SenderOf
  <2> QED
    BY <2>2, <2>3
<1> HIDE DEF to, c
<1>5. ASSUME kind \in {"cmd", "log", "debug"}
      PROVE  Heard
  <2>1. to \in DOMAIN channels /\ to[1] \in {c.host.ip, DetectionIp(cfg)}
    <3>1. CASE kind = "cmd"
      <4>1. to = SenderOf(l, CfgOf(l).host.ports.cmd)
        BY <3>1 DEF Destination, to
      <4> QED
        BY <1>4, <4>1
    <3>2. CASE kind = "log"
      <4>1. to = SenderOf(l, CfgOf(l).host.ports.log)
        BY <3>2 DEF Destination, to
      <4> QED
        BY <1>4, <4>1
    <3>3. CASE kind = "debug"
      <4>1. to = <<c.host.ip, kHostDebugPointCloudPort>>
        BY <3>3 DEF Destination, to, c
      <4>2. kHostDebugPointCloudPort \in DataPorts(c)
        BY DEF DataPorts, kHostDebugPointCloudPort, kLogPort, kDetectionPort
      <4>3. to \in ChannelsOf(c, cfg)
        BY <4>1, <4>2 DEF ChannelsOf
      <4>4. to \in DOMAIN channels
        BY <1>1, <4>3 DEF AreOpened
      <4> QED
        BY <4>1, <4>4
    <3> QED
      BY <1>5, <3>1, <3>2, <3>3
  <2> QED
    BY <1>1, <1>2, <1>3, <1>5, <2>1, HeardDirectly
<1>6. ASSUME kind \in {"point", "imu"}
      PROVE  Heard
  <2> DEFINE port == to[2]
             s == CreateSocket(c.host.ip, port, c.host.multicast)
  <2>1. to[1] = DataAddress(c)
    <3>1. CASE kind = "point"
      <4>1. to = ToldAddress(l, "pointcloud_host_ipcfg")
        BY <3>1 DEF Destination, to
      <4>2. to = <<DataAddress(c), c.host.ports.point>>
        BY <1>2, <4>1, ToldAddressIs DEF c, to
      <4> QED
        BY <4>2
    <3>2. CASE kind = "imu"
      <4>1. to = ToldAddress(l, "imu_host_ipcfg")
        BY <3>2 DEF Destination, to
      <4>2. to = <<DataAddress(c), c.host.ports.imu>>
        BY <1>2, <4>1, ToldAddressIs DEF c, to
      <4> QED
        BY <4>2
    <3> QED
      BY <1>6, <3>1, <3>2
  <2>2. s \in Sockets /\ port # 0
    BY <1>1, <1>3, <1>6, DataSocket
  <2>3. /\ s.port = port /\ s.bound \in {to[1], AnyAddress}
        /\ c.host.multicast # NoAddress => s.group = to[1]
    BY <1>2, <2>1, DataSocketFields
  <2>4. c.host.multicast = NoAddress => ~IsGroup(to[1])
    BY <1>2, <2>1 DEF DataAddress
  <2> HIDE DEF s
  <2> QED
    BY <2>2, <2>3, <2>4, HeardFrom
<1>7. ASSUME kind = "push"
      PROVE  Heard
  <2> DEFINE s == BroadcastSocket(c.host.ports.push)
  <2>1. to = ToldAddress(l, "host_state_info")
    BY <1>7 DEF Destination, to
  <2>2. c.type # "hap" /\ to = <<DataAddress(c), c.host.ports.push>>
    BY <1>2, <2>1, ToldAddressIs DEF c, to
  <2>3. c.type = "mid360"
    <3>1. c.type \in {"hap", "mid360"}
      <4>1. c.type \in ToSet(Types)
        BY <1>1 DEF Cfgs, RawCfgs
      <4> QED
        BY <4>1 DEF ToSet, Types
    <3> QED
      BY <2>2, <3>1
  <2>4. s \in Sockets
    BY <1>1, <2>3 DEF Broadcasts, Sockets
  <2>5. s.port = to[2] /\ s.bound = AnyAddress
    BY <2>2 DEF BroadcastSocket, Socket
  <2>6. IsGroup(to[1]) => \E t \in Sockets : t.group = to[1]
    <3>1. CASE c.host.multicast = NoAddress
      BY <1>2, <2>2, <3>1 DEF DataAddress
    <3>2. CASE c.host.multicast # NoAddress
      <4>1. PICK port \in DataPorts(c) : ~IsContended(c.host.ip, port, c.host.multicast)
        BY <1>3, <1>7, <3>2
      <4> DEFINE t == CreateSocket(c.host.ip, port, c.host.multicast)
      <4>2. t \in Sockets
        BY <1>1, <4>1, DataSocket
      <4>3. t.group = DataAddress(c)
        BY <1>2, <3>2, DataSocketFields
      <4> HIDE DEF t
      <4> QED
        BY <2>2, <4>2, <4>3
    <3> QED
      BY <3>1, <3>2
  <2>7. to[2] # 0
    BY <1>3, <1>7
  <2> HIDE DEF s
  <2> QED
    BY <2>4, <2>5, <2>6, <2>7, HeardFrom
<1>8. Heard
  BY <1>5, <1>6, <1>7 DEF Kinds
<1> QED
  BY <1>8 DEF to

\* The property follows from the invariant, whatever the lidars keep.
LEMMA LinkImplies == LinkInv => DataReachesItsHandler
<1> SUFFICES ASSUME LinkInv, NEW l \in Configured, NEW kind \in Kinds,
                    Destination(l, kind) # <<>>, ~IsLost(l, kind)
             PROVE  Arrives(l, kind)
  BY DEF DataReachesItsHandler
<1>1. /\ ~HasBadAddress(l) /\ ~PortsAreMixedUp(l, kind)
      /\ ~HasNoSocket(CfgOf(l), kind, Destination(l, kind))
  BY DEF IsLost
<1>2. LET to == Destination(l, kind) IN \E s \in Sockets : Hears(s, to[1], to[2])
  BY <1>1, IsHeard
<1>3. kind = "push" => CfgOf(l).lidarPorts.push = PortsOf["mid360"].push
  <2> SUFFICES ASSUME kind = "push"
               PROVE  CfgOf(l).lidarPorts.push = PortsOf["mid360"].push
    OBVIOUS
  <2>1. ToldAddress(l, "host_state_info") # <<>>
    BY DEF Destination
  <2>2. IsAddress(DataAddress(CfgOf(l)))
    BY <1>1 DEF HasBadAddress
  <2>3. CfgOf(l).type # "hap"
    BY <2>1, <2>2, ToldAddressIs
  <2>4. CfgOf(l) \in Cfgs
    BY ConfigOfLidar
  <2>5. CfgOf(l).type \in {"hap", "mid360"}
    <3>1. CfgOf(l).type \in ToSet(Types)
      BY <2>4 DEF Cfgs, RawCfgs
    <3> QED
      BY <3>1 DEF ToSet, Types
  <2> QED
    BY <2>3, <2>4, <2>5 DEF Cfgs
<1>4. l \in Lidars
  BY DEF Configured
<1>5. LET handlers == OnData(FALSE, CfgOf(l), PortsOf[TypeOf[l]][kind])
      IN /\ HandlerOf[kind] \in handlers
         /\ handlers \ {HandlerOf[kind]} \subseteq (IF kind = "log" THEN {"command"} ELSE {})
  BY <1>1, <1>3, <1>4, HandledAlone
<1> QED
  BY <1>2, <1>5 DEF Arrives

\* What the SDK tells a lidar, what it opens and how OnData sorts agree, for every file, every
\* order of first answers and whatever the lidars keep (BuildUpdateMid360LidarCfgRequest,
\* CreateChannel, CreateSocket, DeviceManager::OnData).
THEOREM DataReachesItsHandlerCorrect == Spec => []DataReachesItsHandler
BY LinkInvariant, LinkImplies, PTL

=============================================================================
