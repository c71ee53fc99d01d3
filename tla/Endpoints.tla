----------------------------- MODULE Endpoints -----------------------------
(***************************************************************************)
(* The API as the browser client calls it (features/<part>/api.ts): for    *)
(* every read, the tables whose rows it lists and whose rows they are; for *)
(* every write, the tables its commit changes, as the handlers in          *)
(* src/backend/internal do.  Paths, page sizes and the mapping of one      *)
(* field to another are left out, and so is a name a row carries from      *)
(* another table.                                                          *)
(*                                                                         *)
(* A scope is whose rows an endpoint touches: "public" needs no session,   *)
(* "shared" shows every signed-in user the same rows, "own" the caller's,  *)
(* "console" what an administrator sees of everyone.                       *)
(***************************************************************************)
Scopes == {"public", "shared", "own", "console"}

\* A list reads a table of rows, old and new; a page about one row reads that row.
Tables == {"users", "alerts", "wallets", "ledger", "deposits", "deposit", "withdrawals",
           "withdrawal", "methods", "currencies", "rounds", "games", "game", "returns", "categories", "favorites",
           "notifications", "announcements", "chat", "audit"}

Reads(scope, tables) == [scope |-> scope, reads |-> tables]

\* A keyed write carries an Idempotency-Key: the server records a key once and answers a
\* repeat with what it recorded.
Writes(scope, tables) == [scope |-> scope, writes |-> tables, keyed |-> FALSE]
WritesOnce(scope, tables) == [scope |-> scope, writes |-> tables, keyed |-> TRUE]

(***************************************************************************)
(* features/wallet/api.ts                                                  *)
(***************************************************************************)

fetchCurrencies       == Reads("public", {"currencies"})
fetchWallets          == Reads("own", {"wallets"})
fetchWallet           == Reads("own", {"wallets"})
fetchPaymentMethods   == Reads("shared", {"methods"})
fetchDepositLimits    == Reads("public", {"currencies"})
fetchDeposits         == Reads("own", {"deposits"})
fetchDeposit          == Reads("own", {"deposit"})
fetchWithdrawalLimits == Reads("public", {"currencies"})
fetchWithdrawals      == Reads("own", {"withdrawals"})
fetchWithdrawal       == Reads("own", {"withdrawal"})
fetchTransactions     == Reads("own", {"ledger"})
fetchWalletSummary    == Reads("own", {"ledger"})
fetchRounds           == Reads("own", {"rounds"})
fetchRecentRounds     == Reads("own", {"rounds"})
fetchNotifications    == Reads("own", {"notifications"})

submitDeposit         == WritesOnce("own", {"deposits"})
submitWithdrawal      == WritesOnce("own", {"withdrawals", "wallets", "ledger"})
cancelWithdrawal      == Writes("own", {"withdrawals", "withdrawal", "wallets", "ledger", "audit"})
markNotificationsRead == Writes("own", {"notifications"})

(***************************************************************************)
(* features/catalogue/api.ts, announcement/api.ts, chat/api.ts,            *)
(* gameplay/api.ts                                                         *)
(***************************************************************************)

fetchCategories         == Reads("public", {"categories", "games"})
fetchGames              == Reads("public", {"games"})
fetchGame               == Reads("public", {"game"})
fetchGameManifest       == Reads("public", {"game", "returns"})
fetchRecentlyPlayed     == Reads("own", {"rounds", "games"})
fetchFavorites          == Reads("own", {"favorites", "games"})
setFavorite             == Writes("own", {"favorites"})

fetchAnnouncements      == Reads("public", {"announcements"})
fetchAdminAnnouncements == Reads("console", {"announcements"})
createAnnouncement      == Writes("console", {"announcements", "audit"})
updateAnnouncement      == Writes("console", {"announcements", "audit"})
setAnnouncementStatus   == Writes("console", {"announcements", "audit"})

fetchChatRoom           == Reads("public", {"chat"})
sendChatMessage         == Writes("own", {"chat"})

(***************************************************************************)
(* features/admin/api.ts                                                   *)
(***************************************************************************)

fetchDashboard             == Reads("console", {"deposits", "rounds"})
fetchAuditEntries          == Reads("console", {"audit"})
fetchDepositQueue          == Reads("console", {"deposits"})
fetchAdminDeposits         == Reads("console", {"deposits"})
fetchAdminWithdrawals      == Reads("console", {"withdrawals"})
fetchUsers                 == Reads("console", {"users"})
fetchUserCounts            == Reads("console", {"users"})
fetchUser                  == Reads("console", {"users"})
fetchUserWallets           == Reads("console", {"wallets"})
fetchUserRounds            == Reads("console", {"rounds"})
fetchUserDeposits          == Reads("console", {"deposits"})
fetchUserAdjustments       == Reads("console", {"ledger"})
fetchAdminTransactions     == Reads("console", {"ledger"})
fetchAdminGames            == Reads("console", {"games", "returns", "rounds"})
fetchAdminGame             == Reads("console", {"game", "returns", "rounds"})
\* The table a return implies: computed by the engine, stored nowhere.
fetchAdminRtpConfiguration == Reads("console", {})
fetchAllCategories         == Reads("public", {"categories"})
fetchAdminRounds           == Reads("console", {"rounds"})
fetchAdminPaymentMethods   == Reads("console", {"methods"})
fetchStaff                 == Reads("console", {"users", "alerts"})
fetchConsoleSearch         == Reads("console", {"users", "deposits", "rounds"})

reviewDeposit       ==
    Writes("console", {"deposits", "deposit", "wallets", "ledger", "notifications", "audit"})
reviewWithdrawal    ==
    Writes("console", {"withdrawals", "withdrawal", "wallets", "ledger", "notifications", "audit"})
adjustWallet        == Writes("console", {"wallets", "ledger", "audit"})
setUserStatus       == Writes("console", {"users", "audit"})
createGame          == Writes("console", {"games", "audit"})
updateGame          == Writes("console", {"games", "game", "audit"})
setGameRtp          == Writes("console", {"returns", "audit"})
createPaymentMethod == Writes("console", {"methods", "audit"})
updatePaymentMethod == Writes("console", {"methods", "audit"})
setStaffAlerts      == Writes("console", {"alerts", "audit"})
=============================================================================
