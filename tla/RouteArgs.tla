----------------------------- MODULE RouteArgs -----------------------------
(***************************************************************************)
(* How a route request is read from what a client sends: the JSON         *)
(* "arguments" object of bf-http and bf-mcp (service/handlers.cc,         *)
(* FindRoutesHandler) and the options of bf route (apps/cli/cmd_route.cc, *)
(* cli_common.cc).  The two validate on their own and both fill in a      *)
(* RouteRequest.                                                          *)
(*                                                                        *)
(* A JSON value is a record with its type and value; a number is "int"    *)
(* (its value) or "double" (its value in tenths).  An option is what the  *)
(* shell passed, taken apart at the separators the code splits at: --alt  *)
(* is the sequence of its fields, a list item is a name and whether a '*' *)
(* follows it, so that ("", TRUE) is a bare '*' and ("", FALSE) an empty  *)
(* entry.                                                                 *)
(***************************************************************************)
EXTENDS Integers, Sequences

CONSTANTS
  Upper,            \* ToUpper, as a function on the strings clients send
  Long,             \* the strings longer than kMaxIdentStringLen
  Garbage,          \* a field that is not a number
  NonFinite,        \* inf or nan
  kMaxIdListSize, kMaxForcedPoints, kMaxRules, kMaxK, kMaxFl,
  MaxInt, MaxUint   \* the ranges of int and uint32_t

ASSUME ArgsAssumption ==
  /\ {kMaxIdListSize, kMaxForcedPoints, kMaxRules, kMaxK, kMaxFl, MaxInt, MaxUint} \subseteq Nat
  /\ kMaxFl < MaxInt /\ kMaxK < MaxInt
  /\ Garbage \notin Int /\ NonFinite \notin Int
  /\ "*" \notin Long

kDefaultPenaltyFraction == 5
NoAltitude == <<>>
NoSeed == -1

\* The optional strings of a request: two runways, a SID and a STAR.
Names == {"departure_runway", "arrival_runway", "departure_sid", "arrival_star"}

-----------------------------------------------------------------------------
(* JSON values.                                                            *)
Absent == [type |-> "absent"]
Other  == [type |-> "other"]
String(s) == [type |-> "string", val |-> s]
Int32(n)  == [type |-> "int", val |-> n]
Double(t) == [type |-> "double", val |-> t]
Array(s)  == [type |-> "array", val |-> s]

Has(v)      == v.type # "absent"
IsString(v) == v.type = "string"
IsInt(v)    == v.type = "int" /\ v.val \in -MaxInt .. MaxInt
IsUint(v)   == v.type = "int" /\ v.val \in 0 .. MaxUint
IsNumber(v) == v.type \in {"int", "double"}
GetDouble(v) == IF v.type = "int" THEN 10 * v.val ELSE v.val

RequireNonEmptyString(v) == IsString(v) /\ v.val # "" /\ v.val \notin Long
OptionalNonEmptyString(v) == Has(v) => RequireNonEmptyString(v)
StringOr(v, default) == IF Has(v) THEN v.val ELSE default

\* Members may be empty strings here, unlike in a rule.
ParseIdList(v, cap) ==
  /\ v.type = "array"
  /\ Len(v.val) <= cap
  /\ \A i \in DOMAIN v.val : IsString(v.val[i]) /\ v.val[i].val \notin Long
Strings(v) == IF Has(v) THEN [i \in DOMAIN v.val |-> v.val[i].val] ELSE <<>>

\* Absent is fine, present and malformed is not.
OptionalIdList(v, cap) == Has(v) => ParseIdList(v, cap)

-----------------------------------------------------------------------------
(* airway_rules.                                                           *)

\* One side of a rule: required, never empty, and "*" only by itself.
ParseRuleStringList(v) ==
  /\ v.type = "array"
  /\ Len(v.val) \in 1 .. kMaxIdListSize
  /\ \A i \in DOMAIN v.val : RequireNonEmptyString(v.val[i])
  /\ (\E i \in DOMAIN v.val : v.val[i].val = "*") => Len(v.val) = 1

\* An empty list matches everything.
RuleStrings(v) ==
  IF v.val = <<String("*")>> THEN <<>>
  ELSE [i \in DOMAIN v.val |-> Upper[v.val[i].val]]

\* A member that must be one of two words.
OneOf(v, words) == Has(v) => IsString(v) /\ v.val \in words

ParseAirwayRule(r) ==
  /\ ParseRuleStringList(r.region_prefixes)
  /\ ParseRuleStringList(r.designators)
  /\ OneOf(r.match, {"exact", "prefix"})
  /\ OneOf(r.action, {"block", "penalize"})
  /\ Has(r.penalty_fraction) => IsNumber(r.penalty_fraction) /\ GetDouble(r.penalty_fraction) >= 0

AirwayRule(r) ==
  [region_prefixes |-> RuleStrings(r.region_prefixes),
   designators |-> RuleStrings(r.designators),
   match |-> StringOr(r.match, "prefix"),
   action |-> StringOr(r.action, "penalize"),
   penalty_fraction |-> IF Has(r.penalty_fraction) THEN GetDouble(r.penalty_fraction)
                        ELSE kDefaultPenaltyFraction]

ParseAirwayRules(v) ==
  Has(v) => /\ v.type = "array"
            /\ Len(v.val) <= kMaxRules
            /\ \A i \in DOMAIN v.val : v.val[i].type = "object" /\ ParseAirwayRule(v.val[i].val)

AirwayRules(v) ==
  IF Has(v) THEN [i \in DOMAIN v.val |-> AirwayRule(v.val[i].val)] ELSE <<>>

-----------------------------------------------------------------------------
(* FindRoutesHandler.  Every refusal is the same 400, so the checks are a  *)
(* conjunction.                                                            *)

\* min_fl and max_fl; either alone is a single level.
Altitude(min, max) ==
  IF Has(min) \/ Has(max)
  THEN <<IF Has(min) THEN min.val ELSE max.val, IF Has(max) THEN max.val ELSE min.val>>
  ELSE NoAltitude

AltitudeOk(min, max) ==
  /\ Has(min) => IsInt(min)
  /\ Has(max) => IsInt(max)
  /\ Has(min) \/ Has(max) =>
       LET fl == Altitude(min, max)
       IN  fl[1] <= fl[2] /\ fl[1] >= 0 /\ fl[2] <= kMaxFl

LevelOk(v) == OneOf(v, {"low", "high", "none", ""})
Level(v) == IF StringOr(v, "") = "" THEN "none" ELSE v.val

KOk(v) == Has(v) => IsInt(v) /\ v.val \in 1 .. kMaxK

FindRoutesArgsOk(args) ==
  /\ RequireNonEmptyString(args.departure)
  /\ RequireNonEmptyString(args.arrival)
  /\ AltitudeOk(args.min_fl, args.max_fl)
  /\ LevelOk(args.level)
  /\ KOk(args.k)
  /\ \A n \in Names : OptionalNonEmptyString(args.names[n])
  /\ OptionalIdList(args.avoid_waypoints, kMaxIdListSize)
  /\ ParseAirwayRules(args.airway_rules)
  /\ Has(args.random_seed) => IsUint(args.random_seed)
  /\ OptionalIdList(args.forced_points, kMaxForcedPoints)

\* The request FindRoutesHandler hands to the engine.
RequestOfArgs(args) ==
  [departure |-> args.departure.val, arrival |-> args.arrival.val,
   altitude |-> Altitude(args.min_fl, args.max_fl),
   level |-> Level(args.level),
   k |-> IF Has(args.k) THEN args.k.val ELSE 1,
   names |-> [n \in Names |-> StringOr(args.names[n], "")],
   avoid_waypoints |-> Strings(args.avoid_waypoints),
   airway_rules |-> AirwayRules(args.airway_rules),
   random_seed |-> IF Has(args.random_seed) THEN args.random_seed.val ELSE NoSeed,
   forced_points |-> Strings(args.forced_points)]

-----------------------------------------------------------------------------
(* bf route.                                                               *)

\* The options as the option parser takes them from the shell, split where the
\* callback splits them: a list has at least one item, a level at most two fields.
ListItems == Seq([name : STRING, star : BOOLEAN]) \ {<<>>}
FilterSpecs ==
  [colon : BOOLEAN, regions : ListItems, designators : ListItems, action : STRING,
   hasValue : BOOLEAN, value : Int \cup {Garbage, NonFinite}]
AltSpecs == {s \in Seq(Int \cup {Garbage}) : Len(s) <= 2}
Options ==
  [departure : STRING, arrival : STRING, alt : AltSpecs, level : STRING, k : Int,
   names : [Names -> STRING], avoid_wpt : Seq(STRING), airway_filter : Seq(FilterSpecs),
   seed : Int, via : Seq(STRING)]

\* ParseAltSpec: a level or a range; a third '-' is part of the second field,
\* which then is no number.
LevelField(f) == f # Garbage /\ f \in 0 .. kMaxFl
ParseAltSpec(spec) ==
  /\ \A i \in DOMAIN spec : LevelField(spec[i])
  /\ Len(spec) = 2 => spec[1] <= spec[2]

BareStar == [name |-> "", star |-> TRUE]
IsAny(items) == items = <<BareStar>>

\* Mutant: the entries keep the case the shell passed.
CsvNamesAsTyped(items) ==
  IF IsAny(items) THEN <<>> ELSE [i \in DOMAIN items |-> items[i].name]

\* SplitCsv refuses an empty entry, StripStarMarkers a '*' among others.
CsvOk(items) == IsAny(items) \/ \A i \in DOMAIN items : items[i].name # ""
CsvNames(items) ==
  IF IsAny(items) THEN <<>> ELSE [i \in DOMAIN items |-> Upper[items[i].name]]

AllStarred(items) == \A i \in DOMAIN items : items[i].star
NoneStarred(items) == \A i \in DOMAIN items : ~items[i].star

\* The number after "penalize:"; the "" of an absent one means the default.
FractionOk(f) == f \notin {Garbage, NonFinite} /\ f >= 0

ParseAirwayFilter(spec) ==
  /\ spec.colon
  /\ CsvOk(spec.regions)
  /\ CsvOk(spec.designators)
  /\ AllStarred(spec.designators) \/ NoneStarred(spec.designators)
  /\ spec.action \in {"", "block", "penalize"}
  /\ spec.hasValue => spec.action = "penalize" /\ FractionOk(spec.value)

AirwayFilterRule(spec) ==
  [region_prefixes |-> CsvNames(spec.regions),
   designators |-> CsvNames(spec.designators),
   match |-> IF AllStarred(spec.designators) THEN "prefix" ELSE "exact",
   action |-> IF spec.action = "" THEN "penalize" ELSE spec.action,
   penalty_fraction |-> IF spec.hasValue THEN spec.value ELSE kDefaultPenaltyFraction]

\* What the option parser itself refuses (the checks of RegisterRoute).
OptionsOk(flags) ==
  /\ flags.level \in {"none", "low", "high"}
  /\ flags.k \in 1 .. MaxInt
  /\ flags.seed \in {NoSeed} \cup 0 .. MaxUint

\* The checks of the callback, all before the database is opened.
RouteFlagsOk(flags) ==
  /\ OptionsOk(flags)
  /\ ParseAltSpec(flags.alt)
  /\ \A i \in DOMAIN flags.airway_filter : ParseAirwayFilter(flags.airway_filter[i])
  /\ flags.k <= kMaxK
  /\ Len(flags.via) <= kMaxForcedPoints

RequestOfFlags(flags) ==
  [departure |-> flags.departure, arrival |-> flags.arrival,
   altitude |-> IF Len(flags.alt) = 1 THEN <<flags.alt[1], flags.alt[1]>> ELSE flags.alt,
   level |-> flags.level,
   k |-> flags.k,
   names |-> flags.names,
   avoid_waypoints |-> flags.avoid_wpt,
   airway_rules |-> [i \in DOMAIN flags.airway_filter |->
                       AirwayFilterRule(flags.airway_filter[i])],
   random_seed |-> flags.seed,
   forced_points |-> flags.via]
=============================================================================
