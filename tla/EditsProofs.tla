---------------------------- MODULE EditsProofs -----------------------------
(* Which contents Alertmanager refuses, what it holds after an edit, and    *)
(* what the migration keeps, for any objects, contents and times.           *)
EXTENDS Edits, ServiceLemmas

\* The object was admitted, some time ago.
AdmittedInv ==
  /\ now \in Nat /\ created \in Nat /\ created <= now
  /\ item \in Object
  /\ Admitted(item, spec)

LEMMA ClockOnwards ==
  ASSUME now \in Nat, [Next]_vars
  PROVE  now' \in Nat /\ now <= now'
<1>1. CASE Edit
  BY <1>1 DEF Edit, UserActs
<1>2. CASE \E c \in Callers : Sync(c) \/ Serve(c) \/ Take(c)
  <2>1. now' = now
    BY <1>2, RequestClock DEF Sync, Serve, Take, SyncSilence, environment
  <2> QED
    BY <2>1
<1>3. CASE Interfere
  <2>1. now' = now \/ now' = now + 1
    BY <1>3 DEF Interfere, Others, Passes, UserExpires, UserSilences, UserActs
  <2> QED
    BY <2>1
<1>4. CASE UNCHANGED vars
  BY <1>4 DEF vars, environment
<1> QED
  BY <1>1, <1>2, <1>3, <1>4 DEF Next

LEMMA AdmittedOn == AdmittedInv /\ [Next]_vars => AdmittedInv'
<1> SUFFICES ASSUME AdmittedInv, [Next]_vars PROVE AdmittedInv'
  OBVIOUS
<1>1. now' \in Nat /\ now <= now'
  BY ClockOnwards DEF AdmittedInv
<1>2. UNCHANGED object \/ (UNCHANGED <<item, created>> /\ Admitted(item, spec'))
  BY DEF Next, vars, Edit, Sync, Serve, Take, Interfere
<1>3. item' = item /\ created' = created /\ Admitted(item, spec')
  BY <1>2 DEF object, AdmittedInv
<1> QED
  BY <1>1, <1>3 DEF AdmittedInv

LEMMA AdmittedFirst == Init => AdmittedInv
  BY EditsAssumption DEF Init, EnvironmentInit, AdmittedInv

---------------------------------------------------------------------------
\* The times of a conversion are times.
LEMMA TimesType ==
  ASSUME NEW at \in Nat, NEW validUntil \in ValidUntil
  PROVE  SilenceEndsAt(at, validUntil) \in Nat
  BY HundredYearsAssumption DEF SilenceEndsAt, ValidUntil

(* Alertmanager's checks of the converted matchers, in terms of those the   *)
(* users wrote.                                                             *)
LEMMA EmptySame ==
  ASSUME NEW x, NEW y, x <=> y
  PROVE  EmptyTexts(x) = EmptyTexts(y)
  BY Zenon DEF EmptyTexts

LEMMA RefusedMatchers ==
  ASSUME NEW o, NEW M, NEW C, DOMAIN C = DOMAIN M,
         \A j \in DOMAIN M :
           /\ C[j].name = M[j].name /\ C[j].value = M[j].value
           /\ C[j].isRegex <=> Regex(o, M[j])
           /\ C[j].isEqual <=> ~Negative(o, M[j])
  PROVE  UnacceptableMatchers(o, M) <=>
           ~(/\ \A j \in DOMAIN C : ValidMatcher(C[j])
             /\ \E j \in DOMAIN C : ~MatchesEmpty(C[j]))
<1>1. \A j \in DOMAIN M : EmptyTexts(C[j].isRegex) = EmptyTexts(Regex(o, M[j]))
  BY EmptySame
<1>2. ASSUME NEW j \in DOMAIN M
      PROVE  ValidMatcher(C[j]) <=>
               ~(\/ M[j].name \in InvalidNames
                 \/ Regex(o, M[j]) /\ M[j].value \in InvalidRegexes)
  <2>1. /\ C[j].name = M[j].name /\ C[j].value = M[j].value
        /\ C[j].isRegex <=> Regex(o, M[j])
    BY Zenon
  <2> QED
    BY <2>1, Zenon DEF ValidMatcher
<1>3. ASSUME NEW j \in DOMAIN M
      PROVE  MatchesEmpty(C[j]) <=>
               ~Negative(o, M[j]) /\ M[j].value \in EmptyTexts(Regex(o, M[j]))
  <2>1. C[j].value = M[j].value /\ (C[j].isEqual <=> ~Negative(o, M[j]))
    BY Zenon
  <2> QED
    BY <1>1, <2>1, Zenon DEF MatchesEmpty
<1> QED
  BY <1>2, <1>3, Zenon DEF UnacceptableMatchers

LEMMA RefusedV1 ==
  ASSUME AdmittedInv, item.api = "v1alpha1", ~ConversionFails(item, created, spec),
         getSilenceFromCR(item, created, spec).endsAt > now
  PROVE  ~Accepts(getSilenceFromCR(item, created, spec)) <=> Unacceptable(item, spec)
<1> DEFINE s == getSilenceFromCR(item, created, spec)
<1>1. spec \in SpecV1
  BY DEF AdmittedInv, Admitted
<1>2. s.startsAt = created /\ s.matchers = MatchersV1(spec.matchers)
  BY DEF getSilenceFromCR
<1>3. s.endsAt = SilenceEndsAt(created, spec.validUntil)
  BY DEF getSilenceFromCR
<1>4. s.endsAt \in Nat
  BY <1>1, <1>3, TimesType DEF SpecV1, AdmittedInv
<1>5. s.startsAt < s.endsAt /\ now <= s.endsAt
  BY <1>2, <1>4 DEF AdmittedInv
<1> HIDE DEF s
<1>6. PICK M \in Seq(MatcherV1) : M = spec.matchers
  BY <1>1 DEF SpecV1
<1>7. PICK C : C = s.matchers
  OBVIOUS
<1>8. DOMAIN M = 1..Len(M) /\ DOMAIN C = DOMAIN M
  BY <1>2, <1>6, <1>7 DEF MatchersV1
<1>9. \A j \in DOMAIN M :
        C[j] = [name |-> M[j].name, value |-> M[j].value,
                isRegex |-> M[j].isRegex, isEqual |-> M[j].isEqual # FALSE]
  BY <1>2, <1>6, <1>7, <1>8 DEF MatchersV1
<1>10. ASSUME NEW j \in DOMAIN M
       PROVE  /\ C[j].name = M[j].name /\ C[j].value = M[j].value
              /\ C[j].isRegex <=> Regex(item, M[j])
              /\ C[j].isEqual <=> ~Negative(item, M[j])
  <2>1. /\ C[j].name = M[j].name /\ C[j].value = M[j].value
        /\ C[j].isRegex = M[j].isRegex
        /\ C[j].isEqual <=> M[j].isEqual # FALSE
    <3>1. PICK equal : equal = (M[j].isEqual # FALSE)
      OBVIOUS
    <3>2. C[j] = [name |-> M[j].name, value |-> M[j].value,
                  isRegex |-> M[j].isRegex, isEqual |-> equal]
      BY <1>9, <3>1, Zenon
    <3>3. C[j].name = M[j].name /\ C[j].value = M[j].value
      BY <3>2
    <3>4. C[j].isRegex = M[j].isRegex
      BY <3>2
    <3>5. C[j].isEqual = equal
      BY <3>2
    <3> QED
      BY <3>1, <3>3, <3>4, <3>5, Zenon
  <2>2. C[j].isRegex <=> Regex(item, M[j])
    BY <2>1, Zenon DEF Regex
  <2>3. C[j].isEqual <=> ~Negative(item, M[j])
    BY <2>1, Zenon DEF Negative
  <2> QED
    BY <2>1, <2>2, <2>3, Zenon
<1>11. UnacceptableMatchers(item, M) <=>
         ~(/\ \A j \in DOMAIN C : ValidMatcher(C[j])
           /\ \E j \in DOMAIN C : ~MatchesEmpty(C[j]))
  BY <1>8, <1>10, RefusedMatchers, Zenon
<1>12. ~UnacceptableTimes(item, spec)
  BY DEF UnacceptableTimes
<1> QED
  BY <1>5, <1>6, <1>7, <1>11, <1>12, Zenon DEF Accepts, Unacceptable, s

LEMMA RefusedV2 ==
  ASSUME AdmittedInv, item.api = "v1alpha2", ~ConversionFails(item, created, spec),
         getSilenceFromCR(item, created, spec).endsAt > now
  PROVE  ~Accepts(getSilenceFromCR(item, created, spec)) <=> Unacceptable(item, spec)
<1> DEFINE s == getSilenceFromCR(item, created, spec)
<1>1. /\ spec \in SpecV2
      /\ Unset \in {spec.endsAt, spec.duration}
      /\ Unset \notin {spec.startsAt, spec.endsAt} => spec.startsAt < spec.endsAt
  BY DEF AdmittedInv, Admitted
<1>2. /\ s.startsAt = StartsAt(created, spec) /\ s.endsAt = EndsAt(created, spec)
      /\ s.matchers = convertMatchers(spec.matchers)
  BY DEF getSilenceFromCR
<1>3. SilenceEndsAt(created, spec.validUntil) \in Nat
  BY <1>1, TimesType DEF SpecV2, AdmittedInv
<1>4. /\ spec.startsAt \in {Unset} \cup Nat /\ spec.endsAt \in {Unset} \cup Nat
      /\ spec.duration \in {Unset, Overflow} \cup Nat
  BY <1>1 DEF SpecV2
<1>5. spec.endsAt = Unset => spec.duration # Overflow
  BY DEF ConversionFails, TimesFail
<1>6. s.startsAt \in Nat /\ s.endsAt \in Nat
  BY <1>2, <1>3, <1>4, <1>5 DEF StartsAt, EndsAt, AdmittedInv
<1>7. s.startsAt >= s.endsAt <=> UnacceptableTimes(item, spec)
  <2>1. CASE spec.startsAt = Unset
    <3>1. s.startsAt = created /\ created < s.endsAt
      BY <1>2, <1>6, <2>1 DEF StartsAt, AdmittedInv
    <3>2. ~UnacceptableTimes(item, spec)
      BY <2>1 DEF UnacceptableTimes
    <3> QED
      BY <1>6, <3>1, <3>2 DEF AdmittedInv
  <2>2. CASE spec.startsAt # Unset /\ spec.endsAt # Unset
    BY <1>1, <1>2, <1>4, <2>2 DEF StartsAt, EndsAt, UnacceptableTimes
  <2>3. CASE spec.startsAt # Unset /\ spec.endsAt = Unset /\ spec.duration # Unset
    <3>1. s.startsAt = spec.startsAt /\ s.endsAt = spec.startsAt + spec.duration
      BY <1>2, <2>3 DEF StartsAt, EndsAt
    <3>2. spec.startsAt \in Nat /\ spec.duration \in Nat
      BY <1>4, <1>5, <2>3
    <3>3. UnacceptableTimes(item, spec) <=> spec.duration = 0
      BY <2>3 DEF UnacceptableTimes
    <3>4. spec.startsAt >= spec.startsAt + spec.duration <=> spec.duration = 0
      BY <3>2
    <3>5. s.startsAt >= s.endsAt <=> spec.duration = 0
      BY <3>1, <3>4
    <3> QED
      BY <3>3, <3>5, Zenon
  <2>4. CASE spec.startsAt # Unset /\ spec.endsAt = Unset /\ spec.duration = Unset
    <3>1. /\ s.startsAt = spec.startsAt
          /\ s.endsAt = SilenceEndsAt(created, spec.validUntil)
      BY <1>2, <2>4 DEF StartsAt, EndsAt
    <3>2. spec.duration # 0
      BY <2>4, UnsetAssumption
    <3> QED
      BY <3>1, <3>2, <2>4 DEF UnacceptableTimes
  <2> QED
    BY <2>1, <2>2, <2>3, <2>4
<1>8. now <= s.endsAt /\ (s.startsAt < s.endsAt <=> ~(s.startsAt >= s.endsAt))
  BY <1>6 DEF AdmittedInv
<1> HIDE DEF s
<1>9. PICK M \in Seq(MatcherV2) : M = spec.matchers
  BY <1>1 DEF SpecV2
<1>10. PICK C : C = s.matchers
  OBVIOUS
<1>11. DOMAIN M = 1..Len(M) /\ DOMAIN C = DOMAIN M
  <2>1. DOMAIN M = 1..Len(M)
    OBVIOUS
  <2>2. DOMAIN C = 1..Len(M)
    BY <1>2, <1>9, <1>10, Zenon DEF convertMatchers
  <2> QED
    BY <2>1, <2>2, Zenon
<1>12. \A j \in DOMAIN M : M[j].matchType \in MatchTypes
  BY <1>9, Zenon DEF AdmittedInv, Admitted
<1>13. ASSUME NEW j \in DOMAIN M
       PROVE  /\ C[j].name = M[j].name /\ C[j].value = M[j].value
              /\ C[j].isRegex <=> Regex(item, M[j])
              /\ C[j].isEqual <=> ~Negative(item, M[j])
  <2>1. C[j] = [name |-> M[j].name, value |-> M[j].value,
                isRegex |-> M[j].matchType \in {MatchRegexMatch, MatchRegexNotMatch},
                isEqual |-> M[j].matchType \in {"", MatchEqual, MatchRegexMatch}]
    BY <1>2, <1>9, <1>10, <1>11, Zenon DEF convertMatchers
  <2>2. PICK type \in MatchTypes : type = M[j].matchType
    BY <1>12, Zenon
  <2>3. /\ C[j].name = M[j].name /\ C[j].value = M[j].value
        /\ C[j].isRegex <=> type \in {MatchRegexMatch, MatchRegexNotMatch}
        /\ C[j].isEqual <=> type \in {"", MatchEqual, MatchRegexMatch}
    <3>1. PICK regex : regex = (type \in {MatchRegexMatch, MatchRegexNotMatch})
      OBVIOUS
    <3>2. PICK equal : equal = (type \in {"", MatchEqual, MatchRegexMatch})
      OBVIOUS
    <3>3. C[j] = [name |-> M[j].name, value |-> M[j].value,
                  isRegex |-> regex, isEqual |-> equal]
      BY <2>1, <2>2, <3>1, <3>2, Zenon
    <3>4. C[j].name = M[j].name /\ C[j].value = M[j].value
      BY <3>3
    <3>5. C[j].isRegex = regex
      BY <3>3
    <3>6. C[j].isEqual = equal
      BY <3>3
    <3> QED
      BY <3>1, <3>2, <3>4, <3>5, <3>6, Zenon
  <2>4. C[j].isRegex <=> Regex(item, M[j])
    BY <2>2, <2>3, Zenon DEF Regex
  <2>5. type \in {"", MatchEqual, MatchRegexMatch} <=>
          type \notin {MatchNotEqual, MatchRegexNotMatch}
    BY Zenon DEF MatchTypes, MatchEqual, MatchNotEqual, MatchRegexMatch, MatchRegexNotMatch
  <2>6. C[j].isEqual <=> ~Negative(item, M[j])
    BY <2>2, <2>3, <2>5, Zenon DEF Negative
  <2> QED
    BY <2>3, <2>4, <2>6, Zenon
<1>14. UnacceptableMatchers(item, M) <=>
         ~(/\ \A j \in DOMAIN C : ValidMatcher(C[j])
           /\ \E j \in DOMAIN C : ~MatchesEmpty(C[j]))
  BY <1>11, <1>13, RefusedMatchers, Zenon
<1> QED
  BY <1>7, <1>8, <1>9, <1>10, <1>14, Zenon DEF Accepts, Unacceptable, s

(* OnlyTheseAreRefused: of what is admitted and converted, the checks of    *)
(* Alertmanager (Accepts) refuse matchers with names and expressions nobody *)
(* checked before or that ask for nothing, and starts that the definition of*)
(* v1alpha2 compares with no end, and nothing else.                         *)
THEOREM RefusalsAreKnown == Spec => []OnlyTheseAreRefused
<1>1. AdmittedInv => OnlyTheseAreRefused
  <2> SUFFICES ASSUME AdmittedInv PROVE OnlyTheseAreRefused
    OBVIOUS
  <2>1. item.api = "v1alpha1" \/ item.api = "v1alpha2"
    BY DEF AdmittedInv, Object
  <2> QED
    BY <2>1, RefusedV1, RefusedV2 DEF OnlyTheseAreRefused
<1> QED
  BY <1>1, AdmittedFirst, AdmittedOn, PTL DEF Spec

---------------------------------------------------------------------------
(* The migration.                                                           *)

\* As a value, a membership that does not hold is FALSE.
LEMMA NoMember ==
  ASSUME NEW x, NEW S, x \notin S
  PROVE  (x \in S) = FALSE
  OBVIOUS

\* The matchType says again what the two booleans said.
LEMMA ConvertedMatcher ==
  ASSUME NEW m \in MatcherV1
  PROVE  LET n == convert_matcher_to_enum(m) IN
         /\ n \in MatcherV2 /\ n.matchType \in MatchTypes
         /\ n.name = m.name /\ n.value = m.value
         /\ (n.matchType \in {MatchRegexMatch, MatchRegexNotMatch}) = m.isRegex
         /\ (n.matchType \in {"", MatchEqual, MatchRegexMatch}) = (m.isEqual # FALSE)
<1> DEFINE n == convert_matcher_to_enum(m)
<1>1. m.name \in Text /\ m.value \in Text /\ m.isRegex \in BOOLEAN
  BY Zenon DEF MatcherV1
<1>2. /\ n.name = m.name /\ n.value = m.value
      /\ n = [name |-> n.name, value |-> n.value, matchType |-> n.matchType]
  BY DEF convert_matcher_to_enum
<1>3. n.matchType = IF m.isEqual = FALSE THEN (IF m.isRegex THEN "!~" ELSE "!=")
                                         ELSE (IF m.isRegex THEN "=~" ELSE "=")
  BY DEF convert_matcher_to_enum
<1> HIDE DEF n
<1>4. n.matchType \in MatchTypes
  BY <1>3 DEF MatchTypes, MatchEqual, MatchNotEqual, MatchRegexMatch, MatchRegexNotMatch
<1>5. n \in MatcherV2
  <2>1. n.name \in Text /\ n.value \in Text /\ n.matchType \in Text
    BY <1>1, <1>2, <1>4, MatchTypesAssumption
  <2> QED
    BY <1>2, <2>1 DEF MatcherV2
<1>6. (n.matchType \in {MatchRegexMatch, MatchRegexNotMatch}) = m.isRegex
  BY <1>1, <1>3 DEF MatchRegexMatch, MatchRegexNotMatch
<1>7. (n.matchType \in {"", MatchEqual, MatchRegexMatch}) = (m.isEqual # FALSE)
  <2>1. CASE m.isEqual = FALSE
    <3>1. n.matchType \in {"!~", "!="}
      BY <1>3, <2>1
    <3>2. n.matchType \notin {"", MatchEqual, MatchRegexMatch}
      BY <3>1, Zenon DEF MatchEqual, MatchRegexMatch
    <3>3. (n.matchType \in {"", MatchEqual, MatchRegexMatch}) = FALSE
      BY <3>2, NoMember, Zenon
    <3>4. (m.isEqual # FALSE) = FALSE
      BY <2>1, Zenon
    <3> QED
      BY <3>3, <3>4, Zenon
  <2>2. CASE m.isEqual # FALSE
    <3>1. n.matchType \in {"=~", "="}
      BY <1>3, <2>2
    <3>2. n.matchType \in {"", MatchEqual, MatchRegexMatch}
      BY <3>1 DEF MatchEqual, MatchRegexMatch
    <3> QED
      BY <2>2, <3>2, Zenon
  <2> QED
    BY <2>1, <2>2, Zenon
<1> QED
  BY <1>2, <1>4, <1>5, <1>6, <1>7 DEF n

LEMMA ConvertedMatchers ==
  ASSUME NEW v \in SpecV1
  PROVE  /\ Converted(v) \in Seq(MatcherV2)
         /\ Converted(v) = <<>> <=> v.matchers = <<>>
         /\ DOMAIN Converted(v) = DOMAIN v.matchers
         /\ \A j \in DOMAIN v.matchers :
              /\ Converted(v)[j].name = v.matchers[j].name
              /\ Converted(v)[j].matchType \in MatchTypes
         /\ convertMatchers(Converted(v)) = MatchersV1(v.matchers)
<1> DEFINE M == v.matchers
           C == Converted(v)
           e(j) == convert_matcher_to_enum(M[j])
<1>1. M \in Seq(MatcherV1)
  BY DEF SpecV1
<1> HIDE DEF M
<1>2. \A j \in 1..Len(M) : M[j] \in MatcherV1
  BY <1>1
<1>3. \A j \in 1..Len(M) : e(j) \in MatcherV2
  BY <1>2, ConvertedMatcher
<1>4. C = [j \in 1..Len(M) |-> e(j)]
  BY DEF Converted, M
<1> HIDE DEF e, C
<1>5. Len(M) \in Nat /\ DOMAIN M = 1..Len(M) /\ (M = <<>> <=> Len(M) = 0)
  BY <1>1
<1>6. C \in Seq(MatcherV2) /\ Len(C) = Len(M) /\ \A j \in 1..Len(M) : C[j] = e(j)
  BY <1>3, <1>4, <1>5
<1>7. C = <<>> <=> M = <<>>
  BY <1>5, <1>6
<1>8. DOMAIN C = DOMAIN M
  BY <1>4, <1>5
<1>9. \A j \in 1..Len(M) :
        /\ C[j].name = M[j].name /\ C[j].value = M[j].value
        /\ C[j].matchType \in MatchTypes
        /\ (C[j].matchType \in {MatchRegexMatch, MatchRegexNotMatch}) = M[j].isRegex
        /\ (C[j].matchType \in {"", MatchEqual, MatchRegexMatch}) = (M[j].isEqual # FALSE)
  <2> TAKE j \in 1..Len(M)
  <2>1. C[j] = convert_matcher_to_enum(M[j]) /\ M[j] \in MatcherV1
    BY <1>2, <1>6 DEF e
  <2> QED
    BY <2>1, ConvertedMatcher
<1>10. convertMatchers(C) = MatchersV1(M)
  <2> DEFINE f(j) == [name |-> C[j].name, value |-> C[j].value,
                isRegex |-> C[j].matchType \in {MatchRegexMatch, MatchRegexNotMatch},
                isEqual |-> C[j].matchType \in {"", MatchEqual, MatchRegexMatch}]
             g(j) == [name |-> M[j].name, value |-> M[j].value,
                      isRegex |-> M[j].isRegex, isEqual |-> M[j].isEqual # FALSE]
  <2>1. \A j \in 1..Len(M) : f(j) = g(j)
    BY <1>9, Zenon
  <2>2. convertMatchers(C) = [j \in 1..Len(M) |-> f(j)]
    BY <1>6 DEF convertMatchers
  <2>3. MatchersV1(M) = [j \in 1..Len(M) |-> g(j)]
    BY DEF MatchersV1
  <2> HIDE DEF f, g
  <2> QED
    BY <2>1, <2>2, <2>3
<1>11. /\ C \in Seq(MatcherV2) /\ (C = <<>> <=> M = <<>>) /\ DOMAIN C = DOMAIN M
       /\ \A j \in DOMAIN M : C[j].name = M[j].name /\ C[j].matchType \in MatchTypes
       /\ convertMatchers(C) = MatchersV1(M)
  BY <1>5, <1>6, <1>7, <1>8, <1>9, <1>10
<1> QED
  BY <1>11 DEF C, M

LEMMA MigratedMeaning ==
  ASSUME AdmittedInv, item.api = "v1alpha1"
  PROVE  MigrationKeepsMeaning
<1>1. spec \in SpecV1
  BY DEF AdmittedInv, Admitted
<1>2. spec.validUntil \in ValidUntil /\ spec.matchers \in Seq(MatcherV1)
  BY <1>1 DEF SpecV1
<1> DEFINE o == Migrated(item, <<"team">>)
           C == Converted(spec)
           s == MigratedSpec(spec, C)
<1>3. o.api = "v1alpha2"
  BY DEF Migrated
<1>4. /\ C \in Seq(MatcherV2) /\ (C = <<>> <=> spec.matchers = <<>>)
      /\ DOMAIN C = DOMAIN spec.matchers
      /\ \A j \in DOMAIN C : C[j].name = spec.matchers[j].name
                             /\ C[j].matchType \in MatchTypes
      /\ convertMatchers(C) = MatchersV1(spec.matchers)
  BY <1>1, ConvertedMatchers
<1>5. /\ s = [matchers |-> C, startsAt |-> Unset, endsAt |-> Unset,
              duration |-> Unset, validUntil |-> spec.validUntil]
      /\ s.matchers = C /\ s.startsAt = Unset /\ s.endsAt = Unset
      /\ s.duration = Unset /\ s.validUntil = spec.validUntil
  BY DEF MigratedSpec
<1> HIDE DEF o, s, C
<1>6. s \in SpecV2
  BY <1>2, <1>4, <1>5 DEF SpecV2
<1>7. Admitted(o, s) <=> /\ spec.matchers # <<>>
                         /\ \A j \in DOMAIN spec.matchers : spec.matchers[j].name # ""
  <2>1. Admitted(o, s) <=> /\ C # <<>>
                           /\ \A j \in DOMAIN C : C[j].name # ""
    BY <1>3, <1>4, <1>5, <1>6 DEF Admitted
  <2> QED
    BY <1>4, <2>1
<1>8. ConversionFails(o, created, s) <=> ConversionFails(item, created, spec)
  <2>1. \A j \in 1..Len(C) : C[j].matchType \in MatchTypes
    BY <1>4
  <2>2. ~convertMatchersFails(C)
    BY <2>1 DEF convertMatchersFails
  <2>3. created # Unset /\ Unset # Overflow
    BY UnsetAssumption, OverflowAssumption DEF AdmittedInv
  <2>4. TimesFail(created, s) <=> SilenceEndsAtFails(spec.validUntil)
    BY <1>5, <2>3 DEF TimesFail
  <2>5. ConversionFails(o, created, s) <=> SilenceEndsAtFails(spec.validUntil)
    BY <1>3, <1>5, <2>2, <2>4, Zenon DEF ConversionFails
  <2> QED
    BY <2>5 DEF ConversionFails
<1>9. getSilenceFromCR(o, created, s).matchers = getSilenceFromCR(item, created, spec).matchers
  BY <1>3, <1>4, <1>5 DEF getSilenceFromCR
<1>10. ASSUME NEW later, spec.validUntil.layout # "absent", ~ConversionFails(item, created, spec)
       PROVE  getSilenceFromCR(o, later, s).endsAt = getSilenceFromCR(item, created, spec).endsAt
  <2>1. spec.validUntil.layout \in {"RFC3339", "date"}
    BY <1>2, <1>10 DEF ValidUntil, ConversionFails, SilenceEndsAtFails
  <2>2. SilenceEndsAt(later, spec.validUntil) = SilenceEndsAt(created, spec.validUntil)
    BY <2>1 DEF SilenceEndsAt
  <2> QED
    BY <1>3, <1>5, <2>2 DEF getSilenceFromCR, EndsAt
<1> QED
  BY <1>7, <1>8, <1>9, <1>10 DEF MigrationKeepsMeaning, o, s, C

(* MigrationKeepsMeaning: the conversion MIGRATION.md and the script define *)
(* gives v1alpha2 silences that mean what the v1alpha1 ones meant, whatever *)
(* their matchers and annotations.                                          *)
THEOREM MigrationIsFaithful == Spec => []MigrationKeepsMeaning
<1>1. AdmittedInv => MigrationKeepsMeaning
  BY MigratedMeaning DEF MigrationKeepsMeaning
<1> QED
  BY <1>1, AdmittedFirst, AdmittedOn, PTL DEF Spec

---------------------------------------------------------------------------
(* What Alertmanager holds.  Whatever the contents were when a silence was  *)
(* sent, it is what some content asks for, but that a start in the past may *)
(* have been moved, never beyond the present.                               *)

\* Nobody writes silences with the comment of an object by hand.
NoNamesakes == \A o \in Items : SilenceComment(o) \notin UserComments

OfItem(t) ==
  /\ t.comment = SilenceComment(item) /\ t.createdBy = CreatedBy
  /\ \E w \in Asked :
       /\ t.matchers = w.matchers /\ t.endsAt = w.endsAt
       /\ t.startsAt = w.startsAt \/ (w.startsAt <= now /\ t.startsAt <= now)

CallOfItem(c) ==
  Formed(c) /\ (call[c].step # "none" => call[c].op = "sync" /\ call[c].silence \in Asked)

HeldInv ==
  /\ AdmittedInv /\ item \in Items /\ spec \in Specs
  /\ ServiceTypeOK
  /\ \A c \in Callers : CallOfItem(c)
  /\ \A i \in SilenceIds :
       Unexpired(i) /\ silences[i].comment = SilenceComment(item) => OfItem(silences[i])

\* What the object asks for are silences with its comment.
LEMMA AskedType ==
  ASSUME AdmittedInv, NEW w \in Asked
  PROVE  w \in Silence /\ w.comment = SilenceComment(item) /\ w.createdBy = CreatedBy
<1>1. PICK u \in Specs : /\ Admitted(item, u) /\ ~ConversionFails(item, created, u)
                        /\ w = getSilenceFromCR(item, created, u)
  BY Zenon DEF Asked
<1> QED
  BY <1>1, ConversionType DEF AdmittedInv

LEMMA AskedKept ==
  ASSUME item' = item, created' = created
  PROVE  Asked' = Asked
  BY DEF Asked

LEMMA ItemKept ==
  ASSUME [Next]_vars
  PROVE  /\ item' = item /\ created' = created /\ Asked' = Asked
         /\ spec \in Specs => spec' \in Specs
<1>1. item' = item /\ created' = created /\ (spec \in Specs => spec' \in Specs)
  BY DEF Next, vars, object, Edit, Sync, Serve, Take, Interfere
<1> QED
  BY <1>1, AskedKept

\* The calls and the silences are those of the item as long as it is the item.
LEMMA OfItemKept ==
  ASSUME HeldInv, item' = item, Asked' = Asked, now \in Nat, now' \in Nat, now <= now',
         NEW t \in Silence, OfItem(t)
  PROVE  /\ t.comment = SilenceComment(item') /\ t.createdBy = CreatedBy
         /\ \E w \in Asked' :
              /\ t.matchers = w.matchers /\ t.endsAt = w.endsAt
              /\ t.startsAt = w.startsAt \/ (w.startsAt <= now' /\ t.startsAt <= now')
<1>1. PICK w \in Asked :
        /\ t.matchers = w.matchers /\ t.endsAt = w.endsAt
        /\ t.startsAt = w.startsAt \/ (w.startsAt <= now /\ t.startsAt <= now)
  BY DEF OfItem
<1>2. w.startsAt \in Nat /\ t.startsAt \in Nat
  BY AskedType DEF HeldInv, Silence
<1>3. t.startsAt = w.startsAt \/ (w.startsAt <= now' /\ t.startsAt <= now')
  BY <1>1, <1>2
<1>4. t.comment = SilenceComment(item') /\ t.createdBy = CreatedBy
  BY DEF OfItem
<1> QED
  BY <1>1, <1>3, <1>4

LEMMA CallOfItemKept ==
  ASSUME HeldInv, item' = item, Asked' = Asked, NEW c \in Callers,
         call'[c] = call[c], now' \in Nat, now <= now'
  PROVE  CallOfItem(c)'
<1>1. Formed(c)'
  BY FormedKept DEF HeldInv, CallOfItem
<1> QED
  BY <1>1 DEF HeldInv, CallOfItem

\* Every slot is kept, ended, given to others or given a silence of the item.
LEMMA StoreOfItem ==
  ASSUME HeldInv, item' = item, Asked' = Asked, now' \in Nat, now <= now',
         \A i \in SilenceIds : \/ silences'[i] = silences[i] \/ Ended(i)
                               \/ silences'[i].comment # SilenceComment(item)
                               \/ silences'[i] \in Silence /\ OfItem(silences'[i])
  PROVE  \A i \in SilenceIds :
           Unexpired(i)' /\ silences'[i].comment = SilenceComment(item') =>
             OfItem(silences[i])'
<1> SUFFICES ASSUME NEW i \in SilenceIds, Unexpired(i)',
                    silences'[i].comment = SilenceComment(item)
             PROVE  OfItem(silences[i])'
  OBVIOUS
<1>1. now \in Nat /\ ServiceTypeOK
  BY DEF HeldInv, AdmittedInv
<1>2. PICK t \in Silence : t = silences'[i] /\ OfItem(t)
  <2>1. CASE silences'[i] = silences[i] \/ Ended(i)
    <3>1. silences'[i] = silences[i] /\ Unexpired(i)
      BY <1>1, <2>1, WasUnexpired
    <3> QED
      BY <1>1, <3>1 DEF HeldInv, ServiceTypeOK, AlertmanagerTypeOK
  <2> QED
    BY <2>1
<1> QED
  BY <1>1, <1>2, OfItemKept DEF OfItem

\* What the server makes of a silence of the item is one of it.
LEMMA KeptOfItem ==
  ASSUME AdmittedInv, NEW w \in Asked, NEW tenant, NEW t, Keeps(t, w, tenant)
  PROVE  OfItem(t) /\ NotPast(t.startsAt) = NotPast(w.startsAt)
<1>1. w.startsAt \in Nat /\ w.comment = SilenceComment(item) /\ w.createdBy = CreatedBy
  BY AskedType DEF Silence
<1>2. t.startsAt \in {w.startsAt, NotPast(w.startsAt)} /\ now \in Nat
  BY DEF Keeps, AdmittedInv
<1>3. t.startsAt = w.startsAt \/ (w.startsAt <= now /\ t.startsAt <= now)
  BY <1>1, <1>2 DEF NotPast
<1>4. NotPast(t.startsAt) = NotPast(w.startsAt)
  BY <1>1, <1>2 DEF NotPast
<1> QED
  BY <1>1, <1>3, <1>4 DEF OfItem, Keeps

LEMMA NextHeld ==
  ASSUME NoNamesakes, HeldInv, [Next]_vars
  PROVE  HeldInv'
<1>1. /\ ServiceTypeOK /\ CallTypeOK /\ EnvironmentTypeOK /\ now \in Nat
      /\ item \in Items /\ AdmittedInv
  BY DEF HeldInv, ServiceTypeOK, AdmittedInv
<1>2. /\ now' \in Nat /\ now <= now' /\ item' = item /\ Asked' = Asked
      /\ AdmittedInv' /\ spec' \in Specs
  BY <1>1, ClockOnwards, ItemKept, AdmittedOn DEF HeldInv
<1>3. ASSUME ServiceTypeOK', \A c \in Callers : CallOfItem(c)',
             \A i \in SilenceIds : \/ silences'[i] = silences[i] \/ Ended(i)
                                   \/ silences'[i].comment # SilenceComment(item)
                                   \/ silences'[i] \in Silence /\ OfItem(silences'[i])
      PROVE  HeldInv'
  BY <1>1, <1>2, <1>3, StoreOfItem DEF HeldInv
<1>4. CASE Edit \/ UNCHANGED vars
  <2>1. UNCHANGED service /\ (UserActs("edit") \/ UNCHANGED environment)
    BY <1>4 DEF Edit, vars
  <2>2. UNCHANGED <<silences, call>>
    BY <2>1 DEF service
  <2>3. ServiceTypeOK'
    <3>1. EnvironmentTypeOK'
      BY <1>1, <2>1, UserActsType DEF environment, EnvironmentTypeOK
    <3> QED
      BY <1>1, <2>2, <3>1 DEF ServiceTypeOK, AlertmanagerTypeOK, CallTypeOK
  <2> QED
    BY <1>2, <1>3, <2>2, <2>3, CallOfItemKept
<1>5. ASSUME NEW c \in Callers, Sync(c) PROVE HeldInv'
  <2>1. PICK s : s = getSilenceFromCR(item, created, spec)
    OBVIOUS
  <2>2. s \in Asked
    BY <1>5, <2>1, Zenon DEF Sync, HeldInv, AdmittedInv, Asked
  <2>3. s \in Silence
    BY <1>1, <2>2, AskedType
  <2>4. PICK tenant \in Text : SyncSilence(c, s, tenant)
    BY <1>5, <2>1, LiteralAssumption DEF Sync
  <2>5. ServiceTypeOK' /\ UNCHANGED <<now, silences>>
    BY <1>1, <2>3, <2>4, SyncSilenceType DEF SyncSilence, environment
  <2>6. /\ call'[c].op = "sync" /\ call'[c].silence = s
        /\ \A d \in Callers \ {c} : call'[d] = call[d]
    BY <1>1, <2>4 DEF SyncSilence, CallTypeOK
  <2>7. Formed(c)'
    BY <1>1, <2>4, <2>5, NewFormed
  <2>9. CallOfItem(c)'
    BY <1>2, <2>2, <2>6, <2>7 DEF CallOfItem
  <2>10. \A d \in Callers : CallOfItem(d)'
    BY <1>2, <2>6, <2>9, CallOfItemKept
  <2> QED
    BY <1>3, <2>5, <2>10
<1>6. ASSUME NEW c \in Callers, Serve(c) PROVE HeldInv'
  <2>1. Request(c) /\ CallOfItem(c) /\ Formed(c)
    BY <1>6 DEF Serve, HeldInv, CallOfItem
  <2>2. ServiceTypeOK' /\ Formed(c)'
    BY <1>1, <2>1, RequestType, RequestFormed
  <2>3. /\ call[c].step # "none"
        /\ call'[c].silence = call[c].silence /\ call'[c].op = call[c].op
        /\ \A d \in Callers \ {c} : call'[d] = call[d]
    BY <1>1, <2>1, RequestFields
  <2>4. call[c].op = "sync" /\ call[c].silence \in Asked
    BY <2>1, <2>3 DEF CallOfItem
  <2>5. CallOfItem(c)'
    BY <1>2, <2>2, <2>3, <2>4 DEF CallOfItem
  <2>6. \A d \in Callers : CallOfItem(d)'
    BY <1>2, <2>3, <2>5, CallOfItemKept
  <2>7. ASSUME NEW i \in SilenceIds, Keeps(silences'[i], call[c].silence, call[c].tenant)
        PROVE  silences'[i] \in Silence /\ OfItem(silences'[i])
    <3>1. silences'[i] \in Silence
      BY <2>2 DEF ServiceTypeOK, AlertmanagerTypeOK
    <3> QED
      BY <1>1, <2>4, <2>7, <3>1, KeptOfItem
  <2> QED
    BY <1>1, <1>3, <2>1, <2>2, <2>6, <2>7, RequestWrites
<1>7. ASSUME NEW c \in Callers, Take(c) PROVE HeldInv'
  <2>1. /\ Collect(c) /\ UNCHANGED <<environment, silences, now>>
    BY <1>7 DEF Take, environment
  <2>2. CallTypeOK' /\ call'[c] = NoCall /\ \A d \in Callers \ {c} : call'[d] = call[d]
    BY <1>1, <2>1, CollectType DEF Collect, CallTypeOK
  <2>3. ServiceTypeOK'
    BY <1>1, <2>1, <2>2
       DEF ServiceTypeOK, EnvironmentTypeOK, AlertmanagerTypeOK, environment
  <2>4. CallOfItem(c)'
    BY <1>1, <2>1, <2>2, NewFormed, NoCallFields DEF CallOfItem
  <2>5. \A d \in Callers : CallOfItem(d)'
    BY <1>2, <2>2, <2>4, CallOfItemKept
  <2> QED
    BY <1>3, <2>1, <2>3, <2>5
<1>8. CASE Interfere
  <2>1. Others /\ UNCHANGED call
    BY <1>8 DEF Interfere
  <2>2. ServiceTypeOK'
    BY <1>1, <2>1, OthersType
  <2>3. \A d \in Callers : CallOfItem(d)'
    BY <1>2, <2>1, CallOfItemKept
  <2>4. \A i \in SilenceIds : \/ silences'[i] = silences[i] \/ Ended(i)
                              \/ silences'[i].comment # SilenceComment(item)
    BY <1>1, <2>1, OthersWrite DEF NoNamesakes
  <2> QED
    BY <1>3, <2>2, <2>3, <2>4
<1> QED
  BY <1>4, <1>5, <1>6, <1>7, <1>8 DEF Next

LEMMA InitHeld == Init => HeldInv
<1> SUFFICES ASSUME Init PROVE HeldInv
  OBVIOUS
<1>1. now = 0 /\ AdmittedInv /\ item \in Items /\ spec \in Specs
  BY AdmittedFirst DEF Init, EnvironmentInit
<1>2. ServiceTypeOK
  <2>1. EnvironmentTypeOK
    BY DEF Init, EnvironmentInit, EnvironmentTypeOK
  <2>2. AlertmanagerTypeOK /\ CallTypeOK
    BY NoSilenceType, NoCallType DEF Init, ServiceInit, AlertmanagerTypeOK, CallTypeOK
  <2> QED
    BY <2>1, <2>2 DEF ServiceTypeOK
<1>3. \A i \in SilenceIds : ~Unexpired(i)
  <2>1. NoSilence.endsAt = 0
    BY DEF NoSilence
  <2> QED
    BY <1>1, <2>1 DEF Init, ServiceInit, Unexpired
<1>4. \A c \in Callers : call[c].step = "none" /\ call[c].op = "none" /\ call[c].now = 0
  BY NoCallFields DEF Init, ServiceInit
<1>5. \A c \in Callers : CallOfItem(c)
  BY <1>1, <1>4 DEF CallOfItem, Formed
<1> QED
  BY <1>1, <1>2, <1>3, <1>5 DEF HeldInv

\* What SyncSilence found unchanged is in effect as some content asked for.
LEMMA FoundIsMirror ==
  ASSUME AdmittedInv, NEW t \in Silence, OfItem(t), NEW tenant,
         t.tenant = EffectiveTenant(tenant)
  PROVE  \E w \in Asked : /\ w.matchers = t.matchers /\ w.endsAt = t.endsAt
                          /\ InEffectAs(t, w, tenant)
<1>1. PICK w \in Asked :
        /\ t.matchers = w.matchers /\ t.endsAt = w.endsAt
        /\ t.startsAt = w.startsAt \/ (w.startsAt <= now /\ t.startsAt <= now)
  BY DEF OfItem
<1>2. w \in Silence /\ w.comment = t.comment /\ w.createdBy = t.createdBy
  BY AskedType DEF OfItem
<1>3. PICK u : u = Stored(w, tenant, t.startsAt)
  OBVIOUS
<1>4. u = [comment |-> w.comment, createdBy |-> w.createdBy,
           tenant |-> EffectiveTenant(tenant), matchers |-> w.matchers,
           startsAt |-> t.startsAt, endsAt |-> w.endsAt]
  BY <1>2, <1>3 DEF Stored, Silence
<1>5. t = [comment |-> t.comment, createdBy |-> t.createdBy, tenant |-> t.tenant,
           matchers |-> t.matchers, startsAt |-> t.startsAt, endsAt |-> t.endsAt]
  BY DEF Silence
<1>6. t = u
  BY <1>1, <1>2, <1>4, <1>5
<1>7. NotPast(t.startsAt) = NotPast(w.startsAt)
  BY <1>1, <1>2 DEF NotPast, Silence, AdmittedInv
<1> QED
  BY <1>1, <1>3, <1>6, <1>7 DEF InEffectAs

\* The step in which SyncSilence returns nil.
LEMMA ReturnMirrors ==
  ASSUME HeldInv, NEW c \in Callers, Request(c), call'[c].step = "ok",
         call[c].silence.endsAt > now
  PROVE  \E i \in SilenceIds : \E w \in Asked :
           /\ w.matchers = call[c].silence.matchers /\ w.endsAt = call[c].silence.endsAt
           /\ InEffectAs(silences'[i], w, call[c].tenant)
<1>1. /\ ServiceTypeOK /\ CallTypeOK /\ AlertmanagerTypeOK /\ now \in Nat
      /\ Formed(c) /\ AdmittedInv
  BY DEF HeldInv, ServiceTypeOK, CallOfItem, AdmittedInv
<1>2. call[c].op = "sync" /\ call[c].silence \in Asked
  BY <1>1, RequestFields DEF HeldInv, CallOfItem
<1>3. PICK s \in Silence : s = call[c].silence
  BY <1>1 DEF CallTypeOK
<1>4. PICK tenant \in Text : tenant = call[c].tenant
  BY <1>1 DEF CallTypeOK
<1>5. s.endsAt \in Nat /\ ~(s.endsAt <= now) /\ ~(s.endsAt < now)
  BY <1>1, <1>3 DEF Silence
<1>6. s.comment = SilenceComment(item)
  BY <1>1, <1>2, <1>3, AskedType
<1>7. CASE UNCHANGED silences /\ \E i \in GetSilenceByComment(s.comment, tenant) :
             silences[i].matchers = s.matchers /\ silences[i].endsAt = s.endsAt
  <2>1. PICK i \in GetSilenceByComment(s.comment, tenant) :
          silences[i].matchers = s.matchers /\ silences[i].endsAt = s.endsAt
    BY <1>7
  <2>2. /\ i \in SilenceIds /\ Unexpired(i) /\ silences[i].comment = s.comment
        /\ silences[i].tenant = EffectiveTenant(tenant)
    BY DEF GetSilenceByComment, ListSilences
  <2>3. silences[i] \in Silence /\ OfItem(silences[i]) /\ silences'[i] = silences[i]
    BY <1>1, <1>6, <1>7, <2>2 DEF HeldInv, AlertmanagerTypeOK
  <2>4. PICK w \in Asked : /\ w.matchers = s.matchers /\ w.endsAt = s.endsAt
                           /\ InEffectAs(silences[i], w, tenant)
    BY <1>1, <2>1, <2>2, <2>3, FoundIsMirror
  <2> QED
    BY <1>3, <1>4, <2>2, <2>3, <2>4
<1>8. ASSUME NEW i \in SilenceIds, Keeps(silences'[i], s, tenant)
      PROVE  InEffectAs(silences'[i], s, tenant)
  BY <1>1, <1>2, <1>3, <1>8, KeptOfItem DEF InEffectAs, Keeps
<1>9. CASE call[c].step = "create" /\ PostNew(s, tenant, Held)
  <2>1. PICK i \in SilenceIds : Keeps(silences'[i], s, tenant)
    BY <1>1, <1>9, PostNewWrites
  <2> QED
    BY <1>2, <1>3, <1>4, <1>8, <2>1
<1>10. CASE call[c].step = "update" /\ PostOver(call[c].id, s, tenant, Held)
  <2>1. PICK id \in SilenceIds : id = call[c].id
    BY <1>1, <1>10 DEF Formed
  <2>2. PICK i \in SilenceIds : Keeps(silences'[i], s, tenant)
    BY <1>1, <1>10, <2>1, PostOverWrites
  <2> QED
    BY <1>2, <1>3, <1>4, <1>8, <2>2
<1> QED
  BY <1>1, <1>2, <1>3, <1>4, <1>5, <1>7, <1>9, <1>10, SyncReturns

(* EditsMirrored: when SyncSilence returns nil, and its silence has not     *)
(* ended, Alertmanager holds one with its matchers and its end, in effect as*)
(* some content of the object asked for - after any edits, with any number  *)
(* of callers and whatever silences people write or expire by hand, as long *)
(* as they use comments of their own.                                       *)
THEOREM EditsAreMirrored ==
  ASSUME NoNamesakes
  PROVE  Spec => EditsMirrored
<1>1. HeldInv /\ [Next]_vars =>
        [\A c \in Callers :
           LET s == call[c].silence IN
           Succeeds(c) /\ s.endsAt > now =>
             \E i \in SilenceIds : \E w \in Asked :
               /\ w.matchers = s.matchers /\ w.endsAt = s.endsAt
               /\ InEffectAs(silences'[i], w, call[c].tenant)]_vars
  <2> SUFFICES ASSUME HeldInv, [Next]_vars, NEW c \in Callers,
                      Succeeds(c), call[c].silence.endsAt > now
               PROVE  \E i \in SilenceIds : \E w \in Asked :
                        /\ w.matchers = call[c].silence.matchers
                        /\ w.endsAt = call[c].silence.endsAt
                        /\ InEffectAs(silences'[i], w, call[c].tenant)
    BY Zenon
  <2>1. Request(c)
    <3>1. CallTypeOK
      BY DEF HeldInv, ServiceTypeOK
    <3>2. call'[c] # call[c] /\ call'[c].step # "list" /\ call'[c].step # "none"
      BY DEF Succeeds, Returned
    <3>3. ASSUME NEW d \in Callers, Sync(d) PROVE FALSE
      <4>1. call'[d].step = "list" /\ (c # d => call'[c] = call[c])
        BY <3>1, <3>3 DEF Sync, SyncSilence, CallTypeOK
      <4> QED
        BY <3>2, <4>1
    <3>4. ASSUME NEW d \in Callers, Take(d) PROVE FALSE
      <4>1. call'[d] = NoCall /\ (c # d => call'[c] = call[c])
        BY <3>1, <3>4 DEF Take, Collect, CallTypeOK
      <4> QED
        BY <3>2, <4>1, NoCallFields
    <3>5. ASSUME NEW d \in Callers, Serve(d) PROVE Request(c)
      BY <3>1, <3>2, <3>5, RequestFields DEF Serve
    <3>6. ASSUME Edit \/ Interfere \/ UNCHANGED vars PROVE FALSE
      BY <3>2, <3>6 DEF Edit, Interfere, vars, service
    <3> QED
      BY <3>3, <3>4, <3>5, <3>6 DEF Next
  <2> QED
    BY <2>1, ReturnMirrors DEF Succeeds
<1>2. HeldInv /\ [Next]_vars => HeldInv'
  BY NextHeld
<1> QED
  BY <1>1, <1>2, InitHeld, PTL DEF Spec, EditsMirrored
=============================================================================
