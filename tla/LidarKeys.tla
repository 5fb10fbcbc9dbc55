----------------------------- MODULE LidarKeys -----------------------------
(***************************************************************************)
(* The parameters of a lidar and the messages that carry them: requests    *)
(* that set parameters (command_impl.cpp, build_request.cpp), queries, and *)
(* the state information that a lidar pushes (parse_lidar_state_info.cpp). *)
(*                                                                         *)
(* A parameter is named by its field of DirectLidarStateInfo, and its      *)
(* value is a sequence of numbers. What counts on the wire is its length.  *)
(***************************************************************************)
EXTENDS Integers, Sequences, SequencesExt

\* The function new, and old where new is not defined.
Over(new, old) ==
  [x \in DOMAIN new \cup DOMAIN old |-> IF x \in DOMAIN new THEN new[x] ELSE old[x]]

\* An address of four parts. Other texts are no address.
NoAddress == <<>>

\* The parameters that the SDK has a field for, with the size of the field.
DirectLidarStateInfo ==
  [pcl_data_type |-> 1, pattern_mode |-> 1, dual_emit_en |-> 1, point_send_en |-> 1,
   lidar_ipcfg |-> 12, host_state_info |-> 8, pointcloud_host_ipcfg |-> 8,
   imu_host_ipcfg |-> 8, ctl_host_ipcfg |-> 8, log_host_ipcfg |-> 8,
   vehicle_speed |-> 4, environment_temp |-> 4, install_attitude |-> 24,
   blind_spot_set |-> 4, frame_rate |-> 1, fov_cfg0 |-> 20, fov_cfg1 |-> 20,
   fov_cfg_en |-> 1, detect_mode |-> 1, func_io_cfg |-> 4, work_tgt_mode |-> 1,
   glass_heat |-> 1, imu_data_en |-> 1, fusa_en |-> 1,
   sn |-> 16, product_info |-> 64, version_app |-> 4, version_loader |-> 4,
   version_hardware |-> 4, mac |-> 6, cur_work_state |-> 1, core_temp |-> 4,
   powerup_cnt |-> 4, local_time_now |-> 8, last_sync_time |-> 8, time_offset |-> 8,
   time_sync_type |-> 1, status_code |-> 32, lidar_diag_status |-> 2,
   lidar_flash_status |-> 1, fw_type |-> 1, hms_code |-> 32, ROI_Mode |-> 1]

\* Parameters without a field: they can be set or queried.
UnreportedParams ==
  [work_mode_after_boot |-> 1, force_heat_en |-> 1, log_param_set |-> 7,
   cur_glass_heat_state |-> 1]

ParamSize == Over(DirectLidarStateInfo, UnreportedParams)
Params == DOMAIN ParamSize

-----------------------------------------------------------------------------
(***************************************************************************)
(* Requests.                                                               *)
(***************************************************************************)
Pair(key, len, value) == [key |-> key, len |-> len, value |-> value]
One(key, len, value) == <<Pair(key, len, value)>>
Byte(key, n) == One(key, 1, <<n>>)

\* A request that cannot be built is not sent.
Unsent == <<>>

\* The texts that inet_addr reads as an address.
IsAddress(text) == text \in [1 .. 4 -> 0 .. 255]

\* A part of 256 is taken, and stored in a byte.
IpToU8(text) ==
  IF text \in [1 .. 4 -> 0 .. 256] THEN [i \in 1 .. 4 |-> text[i] % 256] ELSE NoAddress

\* InitHostIpAddr, InitMulticastHostIpAddr, and the ports.
HostIpInfo(key, text, hostPort, lidarPort) ==
  IF IpToU8(text) = NoAddress THEN Unsent
  ELSE One(key, 8, IpToU8(text) \o <<hostPort, lidarPort>>)

PointRequests(n) ==
  [SetLivoxLidarPclDataType |-> Byte("pcl_data_type", n),
   SetLivoxLidarScanPattern |-> Byte("pattern_mode", n),
   SetLivoxLidarDualEmit |-> Byte("dual_emit_en", IF n # 0 THEN 1 ELSE 0),
   EnableLivoxLidarPointSend |-> Byte("point_send_en", 0),
   DisableLivoxLidarPointSend |-> Byte("point_send_en", 1)]

\* InitLidarIpinfoVal
LidarIpInfo(ip, mask, gateway) ==
  IF NoAddress \in {IpToU8(ip), IpToU8(mask), IpToU8(gateway)} THEN Unsent
  ELSE One("lidar_ipcfg", 12, IpToU8(ip) \o IpToU8(mask) \o IpToU8(gateway))

\* With the ports of a Mid360 and the user's network.
AddressRequests(text) ==
  [SetLivoxLidarIp |-> LidarIpInfo(text, <<255, 255, 255, 0>>, <<192, 168, 1, 1>>),
   SetLivoxLidarStateInfoHostIPCfg |-> HostIpInfo("host_state_info", text, 56201, 56200),
   SetLivoxLidarPointDataHostIPCfg |-> HostIpInfo("pointcloud_host_ipcfg", text, 56301, 56300),
   SetLivoxLidarImuDataHostIPCfg |-> HostIpInfo("imu_host_ipcfg", text, 56401, 56400)]

\* Mutant of FovRequests: the reserved word at the end is forgotten.
FovRequestsShort(n) ==
  [SetLivoxLidarInstallAttitude |-> One("install_attitude", 24, <<n>>),
   SetLivoxLidarFovCfg0 |-> One("fov_cfg0", 16, <<n>>),
   SetLivoxLidarFovCfg1 |-> One("fov_cfg1", 16, <<n>>),
   EnableLivoxLidarFov |-> Byte("fov_cfg_en", n),
   DisableLivoxLidarFov |-> Byte("fov_cfg_en", 0)]

FovRequests(n) ==
  [SetLivoxLidarInstallAttitude |-> One("install_attitude", 24, <<n>>),
   SetLivoxLidarFovCfg0 |-> One("fov_cfg0", 20, <<n>>),
   SetLivoxLidarFovCfg1 |-> One("fov_cfg1", 20, <<n>>),
   EnableLivoxLidarFov |-> Byte("fov_cfg_en", n),
   DisableLivoxLidarFov |-> Byte("fov_cfg_en", 0)]

ModeRequests(n) ==
  [SetLivoxLidarDetectMode |-> Byte("detect_mode", n),
   SetLivoxLidarFuncIOCfg |-> One("func_io_cfg", 4, <<n>>),
   SetLivoxLidarBlindSpot |-> One("blind_spot_set", 4, <<n>>),
   SetLivoxLidarWorkMode |-> Byte("work_tgt_mode", n)]

HeatRequests(n) ==
  [EnableLivoxLidarGlassHeat |-> Byte("glass_heat", 1),
   DisableLivoxLidarGlassHeat |-> Byte("glass_heat", 0),
   SetLivoxLidarGlassHeat |-> Byte("glass_heat", n)]

ImuRequests ==
  [EnableLivoxLidarImuData |-> Byte("imu_data_en", 1),
   DisableLivoxLidarImuData |-> Byte("imu_data_en", 0),
   EnableLivoxLidarFusaFunciont |-> Byte("fusa_en", 1),
   DisableLivoxLidarFusaFunciont |-> Byte("fusa_en", 0)]

\* SendSingleControlCommand
ForcedHeatingRequests ==
  [StartForcedHeating |-> Byte("force_heat_en", 1),
   StopForcedHeating |-> Byte("force_heat_en", 0)]

LogParamRequests(n) == [SetLivoxLidarLogParam |-> One("log_param_set", 7, <<n>>)]

BootRequests(n) == [SetLivoxLidarWorkModeAfterBoot |-> Byte("work_mode_after_boot", n)]

\* The functions of livox_lidar_api.h that set a parameter, called with n (or with the
\* address text). Data of type 0 are those of the IMU.
ApiRequests(n, text) ==
  LET settings ==
        Over(PointRequests(n),
             Over(AddressRequests(text), Over(FovRequests(n), ModeRequests(n))))
      switches ==
        Over(HeatRequests(n),
             Over(ImuRequests,
                  Over(ForcedHeatingRequests, Over(LogParamRequests(n), BootRequests(n)))))
      requests == Over(settings, switches)
  IN IF n # 0 THEN requests
     ELSE [requests EXCEPT !["SetLivoxLidarPclDataType"] = requests["EnableLivoxLidarImuData"]]

ApiCalls == DOMAIN ApiRequests(0, NoAddress)

\* GetQueryLidarInternalInfoKeys: a std::set, in the order of the numbers of the keys.
InternalInfoKeys ==
  [hap |->
     <<"pcl_data_type", "pattern_mode", "dual_emit_en", "point_send_en", "lidar_ipcfg",
       "pointcloud_host_ipcfg", "imu_host_ipcfg", "log_host_ipcfg", "install_attitude",
       "blind_spot_set", "work_tgt_mode", "glass_heat", "imu_data_en", "fusa_en",
       "force_heat_en", "sn", "product_info", "version_app", "version_loader",
       "version_hardware", "mac", "cur_work_state", "status_code", "lidar_diag_status",
       "lidar_flash_status", "fw_type", "cur_glass_heat_state">>,
   mid360 |->
     <<"pcl_data_type", "pattern_mode", "lidar_ipcfg", "host_state_info",
       "pointcloud_host_ipcfg", "imu_host_ipcfg", "install_attitude", "fov_cfg0", "fov_cfg1",
       "fov_cfg_en", "detect_mode", "func_io_cfg", "work_tgt_mode", "imu_data_en", "sn",
       "product_info", "version_app", "version_loader", "version_hardware", "mac",
       "cur_work_state", "core_temp", "powerup_cnt", "local_time_now", "last_sync_time",
       "time_offset", "time_sync_type", "lidar_diag_status", "fw_type", "hms_code">>]

\* QueryLivoxLidarInternalInfo, QueryLivoxLidarFwType, QueryLivoxLidarFirmwareVer
QueryKeys(what, type) ==
  CASE what = "QueryLivoxLidarInternalInfo" -> InternalInfoKeys[type]
    [] what = "QueryLivoxLidarFwType" -> <<"fw_type">>
    [] what = "QueryLivoxLidarFirmwareVer" -> <<"version_app">>

Queries == {"QueryLivoxLidarInternalInfo", "QueryLivoxLidarFwType", "QueryLivoxLidarFirmwareVer"}

-----------------------------------------------------------------------------
(***************************************************************************)
(* Packets.                                                                *)
(***************************************************************************)
PacketWrapperLen == 24

\* The number of keys, and a reserved word.
ListHeader == 4
KeyValueParam == 5   \* sizeof(LivoxLidarKeyValueParam), with one byte of the value

\* Where the pair i ends.
End(pairs) ==
  LET end[i \in 0 .. Len(pairs)] == IF i = 0 THEN ListHeader ELSE end[i - 1] + 4 + pairs[i].len
  IN end

DataLen(pairs) == End(pairs)[Len(pairs)]

\* SdkProtocol::Pack. "damaged" is what the network does to a packet.
Pack(pairs) ==
  [pairs |-> pairs, keyNum |-> Len(pairs), length |-> DataLen(pairs) + PacketWrapperLen,
   damaged |-> "no"]

\* Mutant of CheckPreamble: the checksum of the data is not compared.
CheckPreambleHeader(packet) == packet.damaged # "header"

\* Both checksums are compared.
CheckPreamble(packet) == packet.damaged \notin {"header", "data"}

\* ParsePacket
PacketDataLen(packet) == packet.length - PacketWrapperLen

-----------------------------------------------------------------------------
(***************************************************************************)
(* State information.                                                      *)
(***************************************************************************)
ParsedSettings ==
  {"pcl_data_type", "pattern_mode", "dual_emit_en", "point_send_en", "lidar_ipcfg",
   "host_state_info", "pointcloud_host_ipcfg", "imu_host_ipcfg", "ctl_host_ipcfg",
   "log_host_ipcfg", "vehicle_speed", "environment_temp", "install_attitude",
   "blind_spot_set", "frame_rate", "fov_cfg0", "fov_cfg1", "fov_cfg_en", "detect_mode",
   "func_io_cfg", "work_tgt_mode", "glass_heat", "imu_data_en", "fusa_en"}

ParsedStatus ==
  {"sn", "product_info", "version_app", "version_loader", "version_hardware", "mac",
   "cur_work_state", "core_temp", "powerup_cnt", "local_time_now", "last_sync_time",
   "time_offset", "time_sync_type", "status_code", "lidar_diag_status",
   "lidar_flash_status", "fw_type", "hms_code", "ROI_Mode"}

\* A pair needs five bytes, also one whose value is empty.
IsWhole(packet) ==
  \A i \in 1 .. packet.keyNum :
    End(packet.pairs)[i - 1] + KeyValueParam <= PacketDataLen(packet)

\* Unknown keys are skipped, and the last of two pairs with a key counts.
ParseStateInfo(packet) ==
  LET pairs == SubSeq(packet.pairs, 1, packet.keyNum)
      LastOf(k) ==
        pairs[CHOOSE i \in DOMAIN pairs :
                pairs[i].key = k /\ \A j \in i + 1 .. Len(pairs) : pairs[j].key # k]
  IN [k \in {p.key : p \in ToSet(pairs)} \cap (ParsedSettings \cup ParsedStatus) |-> LastOf(k).value]

\* LivoxLidarStateInfoToJson writes one member for each key of the mask.
WrittenSettings ==
  {"pcl_data_type", "pattern_mode", "dual_emit_en", "point_send_en", "lidar_ipcfg",
   "host_state_info", "pointcloud_host_ipcfg", "imu_host_ipcfg", "ctl_host_ipcfg",
   "log_host_ipcfg", "vehicle_speed", "environment_temp", "install_attitude",
   "blind_spot_set"}

WrittenModes ==
  {"frame_rate", "fov_cfg0", "fov_cfg1", "fov_cfg_en", "detect_mode", "func_io_cfg",
   "work_tgt_mode", "glass_heat", "imu_data_en", "fusa_en", "sn", "product_info",
   "version_app", "version_loader"}

WrittenStatus ==
  {"version_hardware", "mac", "cur_work_state", "core_temp", "powerup_cnt",
   "local_time_now", "last_sync_time", "time_offset", "time_sync_type", "status_code",
   "lidar_diag_status", "lidar_flash_status", "fw_type", "hms_code", "ROI_Mode"}

ToJson(info) ==
  [k \in DOMAIN info \cap (WrittenSettings \cup WrittenModes \cup WrittenStatus) |-> info[k]]

\* What the user is given; nothing, when the message cannot be parsed.
NoInfo == <<>>

Parse(packet) == IF IsWhole(packet) THEN ToJson(ParseStateInfo(packet)) ELSE NoInfo

=============================================================================
