-------------------------------- MODULE Desk --------------------------------
(***************************************************************************)
(* What the owner sets up: the settings of the company, the accounts money *)
(* is received on, and the goals of a period.  Each is edited from several *)
(* devices; an edit carries the version its author was shown, and is lost  *)
(* when the row has moved on.                                              *)
(***************************************************************************)
EXTENDS Integers, Sequences, FiniteSets

CONSTANTS SettingValues,
          Channels, Labels, NoLabel,   \* receiving accounts and their labels
          GoalIds, GoalKeys, NoGoalKey, \* a key is scope, person, metric, period
          MaxDeskVersion               \* bound: edits of one row

VARIABLES settings, settingsSeen,   \* company_settings
          channel, channelSeen,     \* receiving_accounts
          goal, goalSeen            \* goals

deskVars == <<settings, settingsSeen, channel, channelSeen, goal, goalSeen>>

NoChannel == [label |-> NoLabel, order |-> 0, active |-> FALSE, version |-> 0]
NoGoal == [status |-> "none", key |-> NoGoalKey, version |-> 0]

DeskTypeOK ==
    /\ settings \in [value: SettingValues, version: 0..MaxDeskVersion]
    /\ channel \in [Channels -> [label: Labels \cup {NoLabel}, order: Nat, active: BOOLEAN,
                                 version: 0..MaxDeskVersion]]
    /\ goal \in [GoalIds -> [status: {"none", "active", "archived"},
                             key: GoalKeys \cup {NoGoalKey}, version: 0..1]]

DeskInit ==
    /\ settings \in [value: SettingValues, version: {0}]
    /\ settingsSeen = {settings}
    /\ channel = [c \in Channels |-> NoChannel]
    /\ channelSeen = [c \in Channels |-> {}]
    /\ goal = [g \in GoalIds |-> NoGoal]
    /\ goalSeen = [g \in GoalIds |-> {}]

-----------------------------------------------------------------------------
(* update: the version sent is in the WHERE clause. *)
UpdateSettings(load, v) ==
    /\ settings.version = load.version
    /\ settings.version < MaxDeskVersion
    /\ settings' = [value |-> v, version |-> settings.version + 1]
    /\ settingsSeen' = settingsSeen \cup {settings'}
    /\ UNCHANGED <<channel, channelSeen, goal, goalSeen>>

-----------------------------------------------------------------------------
Listed == {c \in Channels : channel[c].label # NoLabel}
LabelFree(l) == \A c \in Listed : channel[c].label # l

WriteChannels(rows) ==
    /\ channel' = rows
    /\ channelSeen' = [c \in Channels |-> IF rows[c].label = NoLabel THEN channelSeen[c]
                                          ELSE channelSeen[c] \cup {rows[c]}]
    /\ UNCHANGED <<settings, settingsSeen, goal, goalSeen>>

(* createAccount: after the last one, as far as it had read; the unique     *)
(* index decides on the label.                                              *)
LastOrders == {-1} \cup {row.order : row \in UNION {channelSeen[c] : c \in Channels}}

OrderOf(last) == last
OrderAfter(last) == last + 1

CreateAccount(c, l, last) ==
    /\ c \notin Listed
    /\ LabelFree(l)
    /\ last \in LastOrders
    /\ WriteChannels([channel EXCEPT ![c] = [label |-> l, order |-> OrderAfter(last), active |-> TRUE,
                                             version |-> 0]])

(* updateAccount: a label, or in and out of use. *)
UpdateAccount(c, load, l, active) ==
    /\ c \in Listed
    /\ channel[c].version = load.version
    /\ channel[c].version < MaxDeskVersion
    /\ l # channel[c].label => LabelFree(l)
    /\ WriteChannels([channel EXCEPT ![c] = [@ EXCEPT !.label = l, !.active = active,
                                                      !.version = @ + 1]])

(* reorderAccounts: the request names every account that was found; they    *)
(* are numbered in one transaction, and every row is a new version.         *)
Renumbered(ids, row, n) == [row EXCEPT !.order = n - 1]
Placed(ids, row, n) == [row EXCEPT !.order = n - 1, !.version = @ + 1]

ReorderAccounts(ids) ==
    /\ ids # <<>>
    /\ \A n \in DOMAIN ids : ids[n] \in Listed /\ channel[ids[n]].version < MaxDeskVersion
    /\ WriteChannels([c \in Channels |->
          IF \E n \in DOMAIN ids : ids[n] = c
          THEN Placed(ids, channel[c], CHOOSE n \in DOMAIN ids : ids[n] = c) ELSE channel[c]])

(* Accounts are never deleted, so what was found earlier is some of them.    *)
Orders == {ids \in UNION {[1..n -> Listed] : n \in 0..Cardinality(Listed)} :
             \A m, n \in DOMAIN ids : ids[m] = ids[n] => m = n}

-----------------------------------------------------------------------------
(* create: ux_goals_active, one active goal for a key. *)
CreateGoal(g, k) ==
    /\ goal[g] = NoGoal
    /\ \A h \in GoalIds : goal[h].status = "active" => goal[h].key # k
    /\ goal' = [goal EXCEPT ![g] = [status |-> "active", key |-> k, version |-> 0]]
    /\ goalSeen' = [goalSeen EXCEPT ![g] = @ \cup {goal'[g]}]
    /\ UNCHANGED <<settings, settingsSeen, channel, channelSeen>>

(* archive, never delete. *)
ArchiveGoal(g, load) ==
    /\ load.status = "active"
    /\ goal[g].status = "active" /\ goal[g].version = load.version
    /\ goal' = [goal EXCEPT ![g] = [@ EXCEPT !.status = "archived", !.version = @ + 1]]
    /\ goalSeen' = [goalSeen EXCEPT ![g] = @ \cup {goal'[g]}]
    /\ UNCHANGED <<settings, settingsSeen, channel, channelSeen>>

DeskStep ==
    \/ \E load \in settingsSeen, v \in SettingValues : UpdateSettings(load, v)
    \/ \E c \in Channels, l \in Labels :
         \/ \E last \in LastOrders : CreateAccount(c, l, last)
         \/ \E load \in channelSeen[c], active \in BOOLEAN : UpdateAccount(c, load, l, active)
    \/ \E ids \in Orders : ReorderAccounts(ids)
    \/ \E g \in GoalIds : \/ \E k \in GoalKeys : CreateGoal(g, k)
                          \/ \E load \in goalSeen[g] : ArchiveGoal(g, load)
=============================================================================
