------------------------------- MODULE Hooks -------------------------------
(***************************************************************************)
(* The client's hooks (features/<part>/hooks.ts): the key each query is    *)
(* cached under, and for each mutation which keys it declares stale and    *)
(* when.  Filters, ids and page numbers that only choose rows are one      *)
(* value each; what remains of a key is what a prefix can match.           *)
(***************************************************************************)
EXTENDS Endpoints, Sequences, SequencesExt

Query(key, fetch) ==
    [key |-> key, scope |-> fetch.scope, reads |-> fetch.reads, polls |-> FALSE]

\* refetchInterval: 60 s.
Polling(key, fetch) == [Query(key, fetch) EXCEPT !.polls = TRUE]

\* onSuccess: the keys under `stales` are invalidated when the server has said yes.
OnSuccess(name, write, stales) ==
    [name |-> name, scope |-> write.scope, writes |-> write.writes, keyed |-> write.keyed,
     stales |-> stales, settled |-> FALSE]

\* onSettled: whatever the answer, or with none.
OnSettled(name, write, stales) ==
    [OnSuccess(name, write, stales) EXCEPT !.settled = TRUE]

\* invalidateQueries matches every key that starts with the one it is given.
Matches(stales, key) == \E prefix \in stales : IsPrefix(prefix, key)

(***************************************************************************)
(* features/wallet/hooks.ts.  One currency is active.                      *)
(***************************************************************************)

useCurrencies           == Query(<<"currencies">>, fetchCurrencies)
useWallets              == Query(<<"wallets">>, fetchWallets)
useActiveWallet         == Query(<<"wallets", "active">>, fetchWallet)
usePaymentMethods       == Query(<<"payment-methods">>, fetchPaymentMethods)
useDepositLimits        == Query(<<"deposit-limits", "active">>, fetchDepositLimits)
useDeposits(status)     == Query(<<"deposits", status>>, fetchDeposits)
useDeposit              == Query(<<"deposit", "id">>, fetchDeposit)
useWithdrawalLimits     == Query(<<"withdrawal-limits", "active">>, fetchWithdrawalLimits)
useWithdrawals(status)  == Query(<<"withdrawals", status>>, fetchWithdrawals)
useWithdrawal           == Query(<<"withdrawals", "one", "id">>, fetchWithdrawal)
useTransactions(filter) == Query(<<"transactions", filter>>, fetchTransactions)
useWalletSummary        == Query(<<"transactions", "summary", "filter">>, fetchWalletSummary)
useRounds               == Query(<<"rounds", "filter">>, fetchRounds)
useRecentRounds         == Query(<<"rounds", "recent", "game">>, fetchRecentRounds)
useNotifications        == Polling(<<"notifications">>, fetchNotifications)

useSubmitDeposit == OnSuccess("submitDeposit", submitDeposit, {<<"deposits">>, <<"transactions">>})

\* A request debits the wallet and a cancel credits it back.
useWithdrawalMutation(name, write) ==
    OnSettled(name, write, {<<"withdrawals">>, <<"wallets">>, <<"transactions">>})
useSubmitWithdrawal == useWithdrawalMutation("submitWithdrawal", submitWithdrawal)
useCancelWithdrawal == useWithdrawalMutation("cancelWithdrawal", cancelWithdrawal)
useMarkNotificationsRead ==
    OnSuccess("markNotificationsRead", markNotificationsRead, {<<"notifications">>})

(***************************************************************************)
(* features/catalogue/hooks.ts, announcement/hooks.ts, chat/hooks.ts,      *)
(* gameplay/hooks.ts                                                       *)
(***************************************************************************)

useCategories     == Query(<<"categories">>, fetchCategories)
useRecentlyPlayed == Query(<<"recently-played">>, fetchRecentlyPlayed)
useGames(filter)  == Query(<<"games", filter>>, fetchGames)
\* The rows of the previous term stay up while a new term's are fetched.
useGameSearch     == Query(<<"games", "search">>, fetchGames)
useGame           == Query(<<"game", "slug">>, fetchGame)
useGameManifest   == Query(<<"game-manifest", "slug">>, fetchGameManifest)
useFavorites      == Query(<<"favorites">>, fetchFavorites)
useSetFavorite    == OnSuccess("setFavorite", setFavorite, {<<"favorites">>})

useAnnouncements      == Polling(<<"announcements">>, fetchAnnouncements)
useAdminAnnouncements == Polling(<<"admin", "announcements", "page">>, fetchAdminAnnouncements)
AnnouncementKeys == {<<"announcements">>, <<"admin", "announcements">>, <<"admin", "audit">>}
useCreateAnnouncement    == OnSuccess("createAnnouncement", createAnnouncement, AnnouncementKeys)
useUpdateAnnouncement    == OnSuccess("updateAnnouncement", updateAnnouncement, AnnouncementKeys)
useSetAnnouncementStatus ==
    OnSuccess("setAnnouncementStatus", setAnnouncementStatus, AnnouncementKeys)

useChatRoom        == Query(<<"chat">>, fetchChatRoom)
useSendChatMessage == OnSuccess("sendChatMessage", sendChatMessage, {<<"chat">>})

(***************************************************************************)
(* features/admin/hooks.ts                                                 *)
(***************************************************************************)

useDashboard             == Query(<<"admin", "dashboard", "currency">>, fetchDashboard)
useAuditEntries(rows)    == Query(<<"admin", "audit", rows>>, fetchAuditEntries)
useDepositQueue(rows)    == Query(<<"admin", "deposit-queue", rows>>, fetchDepositQueue)
useAdminDeposits         == Query(<<"admin", "deposits", "filter">>, fetchAdminDeposits)
useAdminWithdrawals(rows) == Query(<<"admin", "withdrawals", rows>>, fetchAdminWithdrawals)
useAdminUsers            == Query(<<"admin", "users", "filter">>, fetchUsers)
useUserCounts            == Query(<<"admin", "user-counts">>, fetchUserCounts)
useAdminUser             == Query(<<"admin", "user", "id">>, fetchUser)
useAdminUserWallets      == Query(<<"admin", "user", "id", "wallets">>, fetchUserWallets)
useUserRounds            == Query(<<"admin", "user", "id", "rounds">>, fetchUserRounds)
useUserDeposits          == Query(<<"admin", "user", "id", "deposits">>, fetchUserDeposits)
useUserAdjustments       == Query(<<"admin", "user", "id", "adjustments">>, fetchUserAdjustments)
useAdminTransactions     == Query(<<"admin", "transactions", "filter">>, fetchAdminTransactions)
useAdminGames            == Query(<<"admin", "games">>, fetchAdminGames)
useAdminGame             == Query(<<"admin", "game", "id">>, fetchAdminGame)
useAdminRtpConfiguration ==
    Query(<<"admin", "game", "id", "rtp-configuration">>, fetchAdminRtpConfiguration)
useAllCategories         == Query(<<"admin", "categories">>, fetchAllCategories)
useAdminRounds           == Query(<<"admin", "rounds", "filter">>, fetchAdminRounds)
useAdminPaymentMethods   == Query(<<"admin", "payment-methods">>, fetchAdminPaymentMethods)
useStaff                 == Query(<<"admin", "staff">>, fetchStaff)
useConsoleSearch         == Query(<<"admin", "search", "term">>, fetchConsoleSearch)

\* "a review that lost the race to another operator still means the queue on screen is
\* stale" (admin/hooks.ts).
useReviewDeposit    == OnSettled("reviewDeposit", reviewDeposit, {<<"admin">>})
useReviewWithdrawal == OnSettled("reviewWithdrawal", reviewWithdrawal, {<<"admin">>})

useAdjustWallet  == OnSuccess("adjustWallet", adjustWallet, {<<"admin">>})
useSetUserStatus == OnSuccess("setUserStatus", setUserStatus, {<<"admin">>})

\* The player's catalogue is the same games.
CatalogueKeys == {<<"admin">>, <<"games">>, <<"game">>, <<"categories">>}
useCreateGame == OnSuccess("createGame", createGame, CatalogueKeys)
useUpdateGame == OnSuccess("updateGame", updateGame, CatalogueKeys)
useSetGameRtp == OnSuccess("setGameRtp", setGameRtp, {<<"admin">>})

MethodKeys == {<<"admin", "payment-methods">>, <<"payment-methods">>}
useCreatePaymentMethod == OnSuccess("createPaymentMethod", createPaymentMethod, MethodKeys)
useUpdatePaymentMethod == OnSuccess("updatePaymentMethod", updatePaymentMethod, MethodKeys)
useSetStaffAlerts == OnSuccess("setStaffAlerts", setStaffAlerts, {<<"admin", "staff">>})
=============================================================================
