------------------------------- MODULE Loyalty -------------------------------
(***************************************************************************)
(* LoyaltyService (src/rewards/loyalty.service.ts): the profile of one     *)
(* client, with what changes its points and the client's credit limit.     *)
(* Every save is a database call of its own, in no transaction, and writes *)
(* the whole row that was read before.                                     *)
(*                                                                         *)
(* The points are decimal(12, 2) columns without a transformer: read from  *)
(* the database they are text.  Taking points away makes a number of the   *)
(* text; adding them appends their digits to it.  Here they are counted in *)
(* hundredths.  The credit limit is counted in points, Rate of them to the *)
(* unit of the currency.                                                   *)
(*                                                                         *)
(* A profile's tier follows its earned points, which no award raises by a  *)
(* point: the tier stays as it is, and so do the multiplier of awards and  *)
(* the rewards it opens.  The points awarded here are the final ones.      *)
(***************************************************************************)
EXTENDS Integers

CONSTANTS
    LoyaltyCaller,    \* the calls that may be in progress
    Points,           \* whole points that are awarded or converted
    Welcome,          \* LOYALTY_WELCOME_POINTS
    Completion,       \* LOYALTY_PROFILE_COMPLETION_POINTS
    Rate,             \* LOYALTY_POINTS_TO_CREDIT_RATE
    Cost,             \* pointsRequired of the reward that is claimed
    MaxConverted,     \* bound on the points converted
    MaxEarned,        \* bound on the hundredths earned
    MaxVouchers,      \* bound on the vouchers
    NoProfile

ASSUME LoyaltyAssumption ==
    /\ Points \subseteq Nat \ {0}
    /\ {Welcome, Completion, Rate, Cost} \subseteq Nat \ {0}
    /\ {MaxConverted, MaxEarned, MaxVouchers} \subseteq Nat

Profile == [points: Int, earned: Int, spent: Int, complete: BOOLEAN, followedUp: BOOLEAN]

NewProfile == [points |-> 100 * Welcome, earned |-> 100 * Welcome, spent |-> 0,
               complete |-> FALSE, followedUp |-> FALSE]

LoyaltyPC == {"idle", "enrolling", "awarding", "earning", "completing", "following",
              "claiming", "converting", "deducting", "charging", "spending", "crediting"}

VARIABLES
    profile,           \* the profile's row
    credit,            \* creditLimit of the client
    converted,         \* the points of the conversions recorded
    vouchers,          \* the claims recorded, each with its voucher
    member,            \* where each call is, and what it has read and was asked
    loyaltyOverlaps,   \* two calls were in progress at the same time
    conversionFailed   \* a conversion failed after it was recorded

loyaltyVars == <<profile, credit, converted, vouchers, member, loyaltyOverlaps,
                 conversionFailed>>

(* row and limit: as read; points: asked for; noted: pointsAfterConversion. *)
MemberCall == [pc: LoyaltyPC, row: Profile \cup {NoProfile}, limit: Nat,
               points: Nat, noted: Int]

NoMemberCall == [pc |-> "idle", row |-> NoProfile, limit |-> 0, points |-> 0, noted |-> 0]

Calling == {c \in LoyaltyCaller : member[c].pc # "idle"}

LoyaltyInit ==
    /\ profile = NoProfile
    /\ credit = 0
    /\ converted = 0
    /\ vouchers = 0
    /\ member = [c \in LoyaltyCaller |-> NoMemberCall]
    /\ loyaltyOverlaps = FALSE
    /\ conversionFailed = FALSE

-----------------------------------------------------------------------------
(* The first digit of n is 5 or more.                                      *)
RoundsUp(n) == \E k \in 0 .. 9 : (n \div 10^k) \in 5 .. 9

(* "100.00" + 50 is "100.0050": the column rounds it, away from zero.      *)
Appended(text, n) ==
    IF ~RoundsUp(n) THEN text ELSE IF text < 0 THEN text - 1 ELSE text + 1

Digits(n) == CHOOSE d \in 1 .. 10 : n < 10^d /\ (d = 1 \/ 10^(d - 1) <= n)

(* "100.00" < "90.00": both sides of claimReward's comparison are text.    *)
TextLess(a, b) ==
    LET m == a \div 100
        n == b \div 100
    IN  CASE a < 0                 -> TRUE
          [] Digits(m) = Digits(n) -> a < b
          [] Digits(m) < Digits(n) -> m <= n \div 10^(Digits(n) - Digits(m))
          [] OTHER                 -> m \div 10^(Digits(m) - Digits(n)) < n

(* createPointsTransaction, of type EARNED and SPENT.                      *)
Earned(row, n) ==
    [row EXCEPT !.points = Appended(@, n), !.earned = Appended(@, n)]

Deducted(row, n) == [row EXCEPT !.points = @ - 100 * n]

Spent(row, n) == [Deducted(row, n) EXCEPT !.spent = Appended(@, n)]

-----------------------------------------------------------------------------
(* The profile and the limit are read first; a call keeps what it uses.    *)
Ask(c, p, n) ==
    /\ member[c].pc = "idle"
    /\ member' = [member EXCEPT ![c] =
         [pc     |-> p,
          row    |-> IF p \in {"completing", "following", "converting"}
                     THEN profile ELSE NoProfile,
          limit  |-> IF p = "converting" THEN credit ELSE 0,
          points |-> n,
          noted  |-> 0]]
    /\ loyaltyOverlaps' = (loyaltyOverlaps \/ Calling # {})
    /\ UNCHANGED <<profile, credit, converted, vouchers, conversionFailed>>

(* A row that was saved is not used again.                                 *)
Goto(c, p) == member' = [member EXCEPT ![c].pc = p, ![c].row = NoProfile]

Answer(c) == member' = [member EXCEPT ![c] = NoMemberCall]

(* createLoyaltyProfile and externalEnroll, for a client without a profile. *)
Enroll(c) == profile = NoProfile /\ Ask(c, "enrolling", Welcome)

(* The client has one profile: a second insert is refused.  The row has    *)
(* the welcome points; a transaction then awards them.                     *)
InsertProfile(c) ==
    /\ member[c].pc = "enrolling"
    /\ IF profile = NoProfile
       THEN profile' = NewProfile /\ Goto(c, "awarding")
       ELSE Answer(c) /\ UNCHANGED profile
    /\ UNCHANGED <<credit, converted, vouchers, loyaltyOverlaps, conversionFailed>>

AwardPoints(c) ==
    /\ profile # NoProfile
    /\ profile.earned < MaxEarned                                                \* bound
    /\ \E n \in Points : Ask(c, "awarding", n)

CompleteProfile(c) ==
    /\ profile # NoProfile /\ ~profile.complete
    /\ profile.earned < MaxEarned                                                \* bound
    /\ Ask(c, "completing", Completion)

SaveCompleted(c) ==
    /\ member[c].pc = "completing"
    /\ profile' = [member[c].row EXCEPT !.complete = TRUE]
    /\ Goto(c, "awarding")
    /\ UNCHANGED <<credit, converted, vouchers, loyaltyOverlaps, conversionFailed>>

(* createPointsTransaction reads the row again.                            *)
FindAgain(c, from, to) ==
    /\ member[c].pc = from
    /\ member' = [member EXCEPT ![c].pc = to, ![c].row = profile]
    /\ UNCHANGED <<profile, credit, converted, vouchers, loyaltyOverlaps, conversionFailed>>

SaveEarned(c) ==
    /\ member[c].pc = "earning"
    /\ profile' = Earned(member[c].row, member[c].points)
    /\ Answer(c)
    /\ UNCHANGED <<credit, converted, vouchers, loyaltyOverlaps, conversionFailed>>

(* processDelayedFollowUps holds the row while the message is sent.        *)
FollowUp(c) ==
    /\ profile # NoProfile /\ ~profile.followedUp
    /\ Ask(c, "following", 0)

SaveFollowedUp(c) ==
    /\ member[c].pc = "following"
    /\ profile' = [member[c].row EXCEPT !.followedUp = TRUE]
    /\ Answer(c)
    /\ UNCHANGED <<credit, converted, vouchers, loyaltyOverlaps, conversionFailed>>

ClaimReward(c) ==
    /\ profile # NoProfile
    /\ ~TextLess(profile.points, 100 * Cost)
    /\ vouchers < MaxVouchers                                                    \* bound
    /\ Ask(c, "claiming", Cost)

(* The claim is recorded, and no points are taken: totalPointsSpent and    *)
(* pointsRequired are both text, their sum is no number, and the database  *)
(* refuses the row.  Nor does the count of redemptions change.             *)
SaveClaim(c) ==
    /\ member[c].pc = "claiming"
    /\ vouchers' = vouchers + 1
    /\ Answer(c)
    /\ UNCHANGED <<profile, credit, converted, loyaltyOverlaps, conversionFailed>>

(* convertPointsToCredit: the points asked for are a number, and so is the *)
(* comparison.                                                             *)
Convert(c) ==
    /\ profile # NoProfile
    /\ \E n \in Points :
         /\ n >= Rate /\ profile.points >= 100 * n
         /\ converted + n <= MaxConverted                                        \* bound
         /\ Ask(c, "converting", n)

RecordConversion(c) ==
    LET n == member[c].points
    IN  /\ member[c].pc = "converting"
        /\ converted' = converted + n
        /\ member' = [member EXCEPT ![c].pc = "deducting",
                                    ![c].noted = member[c].row.points - 100 * n]
        /\ UNCHANGED <<profile, credit, vouchers, loyaltyOverlaps, conversionFailed>>

DeductPoints(c) ==
    /\ member[c].pc = "deducting"
    /\ profile' = Deducted(member[c].row, member[c].points)
    /\ Goto(c, "charging")
    /\ UNCHANGED <<credit, converted, vouchers, loyaltyOverlaps, conversionFailed>>

(* ...and once more, by the transaction; its record changes nothing here.  *)
SaveSpent(c) ==
    /\ member[c].pc = "spending"
    /\ profile' = Spent(member[c].row, member[c].points)
    /\ Goto(c, "crediting")
    /\ UNCHANGED <<credit, converted, vouchers, loyaltyOverlaps, conversionFailed>>

(* Mutant: the credit is added twice, as the points are taken twice. *)
NewLimitTwice(limit, n) == limit + 2 * n

(* creditLimitAfter, from the limit read at the beginning.                 *)
NewLimit(limit, n) == limit + n

SaveCredit(c) ==
    /\ member[c].pc = "crediting"
    /\ credit' = NewLimit(member[c].limit, member[c].points)
    /\ Answer(c)
    /\ UNCHANGED <<profile, converted, vouchers, loyaltyOverlaps, conversionFailed>>

(* A database call fails, and the error is thrown: what was saved stays.   *)
FailMember(c) ==
    /\ member[c].pc # "idle"
    /\ Answer(c)
    /\ conversionFailed' = (conversionFailed
         \/ member[c].pc \in {"deducting", "charging", "spending", "crediting"})
    /\ UNCHANGED <<profile, credit, converted, vouchers, loyaltyOverlaps>>

LoyaltyBegin(c) ==
    \/ Enroll(c)
    \/ AwardPoints(c)
    \/ CompleteProfile(c)
    \/ FollowUp(c)
    \/ ClaimReward(c)
    \/ Convert(c)

LoyaltyStep(c) ==
    \/ InsertProfile(c)
    \/ SaveCompleted(c)
    \/ FindAgain(c, "awarding", "earning")
    \/ SaveEarned(c)
    \/ SaveFollowedUp(c)
    \/ SaveClaim(c)
    \/ RecordConversion(c)
    \/ DeductPoints(c)
    \/ FindAgain(c, "charging", "spending")
    \/ SaveSpent(c)
    \/ SaveCredit(c)
    \/ FailMember(c)

LoyaltyNext == \E c \in LoyaltyCaller : LoyaltyBegin(c) \/ LoyaltyStep(c)

LoyaltySpec == LoyaltyInit /\ [][LoyaltyNext]_loyaltyVars

-----------------------------------------------------------------------------
LoyaltyTypeOK ==
    /\ profile \in Profile \cup {NoProfile}
    /\ credit \in Nat
    /\ converted \in Nat
    /\ vouchers \in Nat
    /\ member \in [LoyaltyCaller -> MemberCall]
    /\ loyaltyOverlaps \in BOOLEAN
    /\ conversionFailed \in BOOLEAN

(* No credit is granted that no conversion accounts for, however calls     *)
(* overlap and fail; and between calls it is all that was converted, if no *)
(* calls overlapped and no conversion failed half-way.                     *)
CreditIsRecorded ==
    /\ credit <= converted
    /\ (Calling = {} /\ ~loyaltyOverlaps /\ ~conversionFailed) => credit = converted

(* A conversion leaves the balance its record says: its metadata states    *)
(* pointsAfterConversion, the balance less the points that were converted. *)
ConversionTakesItsPoints ==
    \A c \in LoyaltyCaller :
      (member[c].pc = "crediting" /\ ~loyaltyOverlaps)
        => profile.points = member[c].noted
=============================================================================
