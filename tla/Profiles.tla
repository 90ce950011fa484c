------------------------------ MODULE Profiles ------------------------------
(***************************************************************************)
(* The 98 message types whose readers are built into the library           *)
(* (src/profiles.cpp), the table of their least sizes on the wire          *)
(* (include/rosbags/profiles/wire_minimum.hpp), which has to be kept in    *)
(* step with the readers by hand, and the profiles that register them.     *)
(*                                                                         *)
(* A type is what its readers read, in their order.  Two types named Time  *)
(* and Duration are structures of the library; std_Time and std_Duration   *)
(* are the messages of std_msgs that hold them.                            *)
(***************************************************************************)
EXTENDS Naturals, Sequences, FiniteSetsExt, SequencesExt

CONSTANT Word   \* one more than the largest size_t
ASSUME WordAssumption == Word \in Nat /\ Word > 36 * 8   \* the largest array of a built-in type

Formats == {"ros1", "cdr"}

\* Two tables in one; what the first one says goes.
Both(f, g) == [x \in DOMAIN f \cup DOMAIN g |-> IF x \in DOMAIN f THEN f[x] ELSE g[x]]

\* An element is [base: "number", width, stored] (stored: its size in memory),
\* [base: "string", bound] or [base: "message", type].
Number(width) == [base |-> "number", width |-> width, stored |-> width]
Octet == Number(1)                         \* uint8
Small == [base |-> "number", width |-> 1, stored |-> 1, signed |-> TRUE]    \* int8
Wide == [base |-> "number", width |-> 1, stored |-> 2, signed |-> TRUE]    \* sent as one byte, kept as 16 bits
Text == [base |-> "string", bound |-> Word - 1]
Nested(type) == [base |-> "message", type |-> type]

\* A field is [kind: "scalar", of], [kind: "array", of, length] or [kind: "sequence", of, bound].
One(of) == [kind |-> "scalar", of |-> of]
Many(of) == [kind |-> "sequence", of |-> of, bound |-> 0]
Doubles(n) == [kind |-> "array", of |-> Number(8), length |-> n]

N1 == One(Number(1))
N2 == One(Number(2))
N4 == One(Number(4))
N8 == One(Number(8))
Str == One(Text)
Of(type) == One(Nested(type))
List(type) == Many(Nested(type))
Smalls == Many(Small)
Fours == Many(Number(4))
Eights == Many(Number(8))
Texts == Many(Text)
Blob == Many(Octet)

Row(n, field) == [i \in 1..n |-> field]
OnlyIf(condition, fields) == IF condition THEN fields ELSE <<>>
Stamped(type) == <<Of("Header"), Of(type)>>
Laid(of) == <<Of("MultiArrayLayout"), Many(of)>>

-----------------------------------------------------------------------------
(* What read_ros1 and read_cdr read                                         *)

MotionTypes(in) ==
  [ Time |-> <<N4, N4>>, Duration |-> <<N4, N4>>, Vector3 |-> Row(3, N8),
    Accel |-> <<Of("Vector3"), Of("Vector3")>>,
    Header |-> OnlyIf(in = "ros1", <<N4>>) \o <<Of("Time"), Str>>, AccelStamped |-> Stamped("Accel"),
    AccelWithCovariance |-> <<Of("Accel"), Doubles(36)>>,
    AccelWithCovarianceStamped |-> Stamped("AccelWithCovariance"),
    Inertia |-> <<N8, Of("Vector3")>> \o Row(6, N8), InertiaStamped |-> Stamped("Inertia"),
    Point |-> Row(3, N8), Point32 |-> Row(3, N4) ]

PoseTypes(in) ==
  [ PointStamped |-> Stamped("Point"), Polygon |-> <<List("Point32")>>,
    PolygonInstance |-> <<Of("Polygon"), N8>>, PolygonInstanceStamped |-> Stamped("PolygonInstance"),
    PolygonStamped |-> Stamped("Polygon"), Quaternion |-> Row(4, N8),
    Pose |-> <<Of("Point"), Of("Quaternion")>>, Pose2D |-> Row(3, N8),
    PoseArray |-> <<Of("Header"), List("Pose")>>, PoseStamped |-> Stamped("Pose"),
    PoseWithCovariance |-> <<Of("Pose"), Doubles(36)>>,
    PoseWithCovarianceStamped |-> Stamped("PoseWithCovariance") ]

TransformTypes(in) ==
  [ QuaternionStamped |-> Stamped("Quaternion"), Transform |-> <<Of("Vector3"), Of("Quaternion")>>,
    TransformStamped |-> <<Of("Header"), Str, Of("Transform")>>, Twist |-> <<Of("Vector3"), Of("Vector3")>>,
    TwistStamped |-> Stamped("Twist"), TwistWithCovariance |-> <<Of("Twist"), Doubles(36)>>,
    TwistWithCovarianceStamped |-> Stamped("TwistWithCovariance"), Vector3Stamped |-> Stamped("Vector3"),
    VelocityStamped |-> <<Of("Header"), Str, Str, Of("Twist")>>, Wrench |-> <<Of("Vector3"), Of("Vector3")>>,
    WrenchStamped |-> Stamped("Wrench") ]

NavigationTypes(in) ==
  [ GridCells |-> <<Of("Header"), N4, N4, List("Point")>>,
    MapMetaData |-> <<Of("Time")>> \o Row(3, N4) \o <<Of("Pose")>>,
    OccupancyGrid |-> <<Of("Header"), Of("MapMetaData"), Smalls>>,
    Odometry |-> <<Of("Header"), Str, Of("PoseWithCovariance"), Of("TwistWithCovariance")>>,
    Path |-> <<Of("Header"), List("PoseStamped")>> ]

CameraTypes(in) ==
  [ BatteryState |-> <<Of("Header")>> \o Row(7, N4) \o Row(4, N1) \o <<Fours, Fours, Str, Str>>,
    RegionOfInterest |-> Row(4, N4) \o <<N1>>,
    CameraInfo |-> <<Of("Header"), N4, N4, Str, Eights>>
                    \o <<Doubles(9), Doubles(9), Doubles(12)>> \o <<N4, N4, Of("RegionOfInterest")>>,
    ChannelFloat32 |-> <<Str, Fours>> ]

ImageTypes(in) ==
  [ CompressedImage |-> <<Of("Header"), Str, Blob>>, FluidPressure |-> <<Of("Header"), N8, N8>>,
    Illuminance |-> <<Of("Header"), N8, N8>>, Image |-> <<Of("Header"), N4, N4, Str, N1, N4, Blob>>,
    Imu |-> <<Of("Header"), Of("Quaternion"), Doubles(9),
             Of("Vector3"), Doubles(9), Of("Vector3"), Doubles(9)>> ]

JointTypes(in) ==
  [ JointState |-> <<Of("Header"), Texts>> \o Row(3, Eights),
    Joy |-> <<Of("Header"), Fours, Fours>>, JoyFeedback |-> <<N1, N1, N4>>,
    JoyFeedbackArray |-> <<List("JoyFeedback")>>, LaserEcho |-> <<Fours>> ]

LaserTypes(in) ==
  [ LaserScan |-> <<Of("Header")>> \o Row(7, N4) \o <<Fours, Fours>>,
    MagneticField |-> <<Of("Header"), Of("Vector3"), Doubles(9)>>,
    MultiDOFJointState |-> <<Of("Header"), Texts, List("Transform"), List("Twist"), List("Wrench")>> ]

CloudTypes(in) ==
  [ MultiEchoLaserScan |-> <<Of("Header")>> \o Row(7, N4) \o <<List("LaserEcho"), List("LaserEcho")>>,
    NavSatStatus |-> <<N1, N2>>,
    NavSatFix |-> <<Of("Header"), Of("NavSatStatus")>> \o Row(3, N8) \o <<Doubles(9), N1>>,
    PointCloud |-> <<Of("Header"), List("Point32"), List("ChannelFloat32")>>,
    PointField |-> <<Str, N4, N1, N4>> ]

AmbientTypes(in) ==
  [ PointCloud2 |-> <<Of("Header"), N4, N4, List("PointField"), N1>> \o <<N4, N4, Blob, N1>>,
    Range |-> <<Of("Header"), N1>> \o Row(4, N4) \o OnlyIf(in = "cdr", <<N4>>),
    RelativeHumidity |-> <<Of("Header"), N8, N8>>, Temperature |-> <<Of("Header"), N8, N8>>,
    TimeReference |-> <<Of("Header"), Of("Time"), Str>> ]

ScalarTypes(in) ==
  [ Bool |-> <<N1>>, Byte |-> <<N1>>, MultiArrayDimension |-> <<Str, N4, N4>>,
    MultiArrayLayout |-> <<List("MultiArrayDimension"), N4>>, ByteMultiArray |-> Laid(Wide),
    Char |-> <<N1>>, ColorRGBA |-> Row(4, N4), std_Duration |-> <<Of("Duration")>>, Empty |-> <<>>,
    Float32 |-> <<N4>> ]

ArrayTypes(in) ==
  [ Float32MultiArray |-> Laid(Number(4)), Float64 |-> <<N8>>, Float64MultiArray |-> Laid(Number(8)),
    Int16 |-> <<N2>>, Int16MultiArray |-> Laid(Number(2)), Int32 |-> <<N4>>,
    Int32MultiArray |-> Laid(Number(4)), Int64 |-> <<N8>>, Int64MultiArray |-> Laid(Number(8)),
    Int8 |-> <<N1>> ]

IntegerTypes(in) ==
  [ Int8MultiArray |-> Laid(Small), String |-> <<Str>>, std_Time |-> <<Of("Time")>>, UInt16 |-> <<N2>>,
    UInt16MultiArray |-> Laid(Number(2)), UInt32 |-> <<N4>>, UInt32MultiArray |-> Laid(Number(4)),
    UInt64 |-> <<N8>>, UInt64MultiArray |-> Laid(Number(8)), UInt8 |-> <<N1>>,
    UInt8MultiArray |-> <<Of("MultiArrayLayout"), Blob>> ]

FieldsIn(in) ==
  Both(MotionTypes(in), Both(PoseTypes(in), Both(TransformTypes(in), Both(NavigationTypes(in),
  Both(CameraTypes(in), Both(ImageTypes(in), Both(JointTypes(in), Both(LaserTypes(in),
  Both(CloudTypes(in), Both(AmbientTypes(in), Both(ScalarTypes(in), Both(ArrayTypes(in),
  IntegerTypes(in)))))))))))))
ProfileFields == [in \in Formats |-> FieldsIn(in)]
ProfileTypes == DOMAIN ProfileFields["cdr"]

-----------------------------------------------------------------------------
(* WireMinimum, as the table has it: bytes of numbers and counts, how many  *)
(* strings, and the messages inside                                         *)

Wire(bytes, texts, nested) == [bytes |-> bytes, texts |-> texts, nested |-> nested]
StampedWire(type) == Wire(0, 0, <<"Header", type>>)
HeaderBytes_Both(in) == 4
HeaderBytes(in) == IF in = "ros1" THEN 4 ELSE 0

GeometryWire(in) ==
  [ Time |-> Wire(2 * 4, 0, <<>>), Duration |-> Wire(2 * 4, 0, <<>>), Vector3 |-> Wire(3 * 8, 0, <<>>),
    Accel |-> Wire(0, 0, <<"Vector3", "Vector3">>),
    Header |-> Wire(HeaderBytes(in), 1, <<"Time">>),
    AccelStamped |-> StampedWire("Accel"),
    AccelWithCovariance |-> Wire(8 * 36, 0, <<"Accel">>),
    AccelWithCovarianceStamped |-> StampedWire("AccelWithCovariance"),
    Inertia |-> Wire(7 * 8, 0, <<"Vector3">>), InertiaStamped |-> StampedWire("Inertia"),
    Point |-> Wire(3 * 8, 0, <<>>), Point32 |-> Wire(3 * 4, 0, <<>>),
    PointStamped |-> StampedWire("Point"), Polygon |-> Wire(4, 0, <<>>),
    PolygonInstance |-> Wire(8, 0, <<"Polygon">>),
    PolygonInstanceStamped |-> StampedWire("PolygonInstance"),
    PolygonStamped |-> StampedWire("Polygon"), Quaternion |-> Wire(4 * 8, 0, <<>>),
    Pose |-> Wire(0, 0, <<"Point", "Quaternion">>), Pose2D |-> Wire(3 * 8, 0, <<>>),
    PoseArray |-> Wire(4, 0, <<"Header">>), PoseStamped |-> StampedWire("Pose"),
    PoseWithCovariance |-> Wire(8 * 36, 0, <<"Pose">>),
    PoseWithCovarianceStamped |-> StampedWire("PoseWithCovariance"),
    QuaternionStamped |-> StampedWire("Quaternion"),
    Transform |-> Wire(0, 0, <<"Vector3", "Quaternion">>),
    TransformStamped |-> Wire(0, 1, <<"Header", "Transform">>),
    Twist |-> Wire(0, 0, <<"Vector3", "Vector3">>), TwistStamped |-> StampedWire("Twist"),
    TwistWithCovariance |-> Wire(8 * 36, 0, <<"Twist">>),
    TwistWithCovarianceStamped |-> StampedWire("TwistWithCovariance"),
    Vector3Stamped |-> StampedWire("Vector3"),
    VelocityStamped |-> Wire(0, 2, <<"Header", "Twist">>), Wrench |-> Wire(0, 0, <<"Vector3", "Vector3">>),
    WrenchStamped |-> StampedWire("Wrench") ]

SensorWire(in) ==
  [ GridCells |-> Wire(3 * 4, 0, <<"Header">>), MapMetaData |-> Wire(3 * 4, 0, <<"Time", "Pose">>),
    OccupancyGrid |-> Wire(4, 0, <<"Header", "MapMetaData">>),
    Odometry |-> Wire(0, 1, <<"Header", "PoseWithCovariance", "TwistWithCovariance">>),
    Path |-> Wire(4, 0, <<"Header">>), BatteryState |-> Wire(9 * 4 + 4 * 1, 2, <<"Header">>),
    RegionOfInterest |-> Wire(4 * 4 + 1, 0, <<>>),
    CameraInfo |-> Wire(2 * 8 * 9 + 8 * 12 + 5 * 4, 1, <<"Header", "RegionOfInterest">>),
    ChannelFloat32 |-> Wire(4, 1, <<>>), CompressedImage |-> Wire(4, 1, <<"Header">>),
    FluidPressure |-> Wire(2 * 8, 0, <<"Header">>), Illuminance |-> Wire(2 * 8, 0, <<"Header">>),
    Image |-> Wire(4 * 4 + 1, 1, <<"Header">>),
    Imu |-> Wire(3 * 8 * 9, 0, <<"Header", "Quaternion", "Vector3", "Vector3">>),
    JointState |-> Wire(4 * 4, 0, <<"Header">>), Joy |-> Wire(2 * 4, 0, <<"Header">>),
    JoyFeedback |-> Wire(2 * 1 + 4, 0, <<>>), JoyFeedbackArray |-> Wire(4, 0, <<>>),
    LaserEcho |-> Wire(4, 0, <<>>), LaserScan |-> Wire(9 * 4, 0, <<"Header">>),
    MagneticField |-> Wire(8 * 9, 0, <<"Header", "Vector3">>),
    MultiDOFJointState |-> Wire(4 * 4, 0, <<"Header">>),
    MultiEchoLaserScan |-> Wire(9 * 4, 0, <<"Header">>), NavSatStatus |-> Wire(1 + 2, 0, <<>>),
    NavSatFix |-> Wire(8 * 9 + 3 * 8 + 1, 0, <<"Header", "NavSatStatus">>),
    PointCloud |-> Wire(2 * 4, 0, <<"Header">>), PointField |-> Wire(2 * 4 + 1, 1, <<>>),
    PointCloud2 |-> Wire(6 * 4 + 2 * 1, 0, <<"Header">>),
    Range |-> Wire(1 + 4 * 4 + IF in = "ros1" THEN 0 ELSE 4, 0, <<"Header">>),
    RelativeHumidity |-> Wire(2 * 8, 0, <<"Header">>), Temperature |-> Wire(2 * 8, 0, <<"Header">>),
    TimeReference |-> Wire(0, 1, <<"Header", "Time">>) ]

NumberWire ==
  [ t \in {"Bool", "Byte", "Char", "Int8", "UInt8", "Int16", "UInt16", "Int32", "UInt32", "Float32",
          "Int64", "UInt64", "Float64"} |->
      Wire(CASE t \in {"Int16", "UInt16"} -> 2 [] t \in {"Int32", "UInt32", "Float32"} -> 4
             [] t \in {"Int64", "UInt64", "Float64"} -> 8 [] OTHER -> 1, 0, <<>>) ]
ArrayWire ==
  [ t \in {"ByteMultiArray", "Int8MultiArray", "UInt8MultiArray", "Int16MultiArray",
          "UInt16MultiArray", "Int32MultiArray", "UInt32MultiArray", "Float32MultiArray",
          "Int64MultiArray", "UInt64MultiArray", "Float64MultiArray"} |->
      Wire(4, 0, <<"MultiArrayLayout">>) ]
OtherWire ==
  [ MultiArrayDimension |-> Wire(2 * 4, 1, <<>>), MultiArrayLayout |-> Wire(2 * 4, 0, <<>>),
    ColorRGBA |-> Wire(4 * 4, 0, <<>>), String |-> Wire(0, 1, <<>>), Empty |-> Wire(0, 0, <<>>),
    std_Time |-> Wire(0, 0, <<"Time">>), std_Duration |-> Wire(0, 0, <<"Duration">>) ]
StdWire(in) == Both(NumberWire, Both(ArrayWire, OtherWire))

WireTable == [in \in Formats |-> Both(GeometryWire(in), Both(SensorWire(in), StdWire(in)))]
RowMinimum(in, row, messages) ==
  row.bytes + row.texts * (IF in = "ros1" THEN 4 ELSE 5)
    + SumFunction([i \in DOMAIN row.nested |-> messages[row.nested[i]]])
ProfileMinimum ==
  [in \in Formats |->
     LET least[t \in ProfileTypes] == RowMinimum(in, WireTable[in][t], least) IN least]

-----------------------------------------------------------------------------
(* The profiles                                                             *)

KnownProfiles == {"ros1_noetic", "ros2_foxy", "ros2_humble", "ros2_jazzy"}

\* A profile that is not known has the types of all.
RegisteredTypes(profile) ==
  {t \in ProfileTypes \ {"Time", "Duration"} :
     /\ t \in {"PolygonInstance", "PolygonInstanceStamped", "VelocityStamped"} =>
          profile \notin {"ros1_noetic", "ros2_foxy"}
     /\ t \in {"std_Time", "std_Duration"} => profile \notin KnownProfiles \ {"ros1_noetic"}}

PackageOf(type) ==
  IF type = "Header" \/ type \in DOMAIN StdWire("cdr") THEN "std_msgs"
  ELSE IF type \in DOMAIN GeometryWire("cdr") THEN "geometry_msgs"
  ELSE IF type \in DOMAIN NavigationTypes("cdr") THEN "nav_msgs"
  ELSE "sensor_msgs"
\* The name that a type is registered under, the parts between its slashes
BuiltinName(type) ==
  <<PackageOf(type), "msg",
    CASE type = "std_Time" -> "Time" [] type = "std_Duration" -> "Duration" [] OTHER -> type>>
=============================================================================
