------------------------------- MODULE Views -------------------------------
(***************************************************************************)
(* The client's pages and what they are made of (pages/, components/): who *)
(* may open each, which queries it keeps mounted, which forms and buttons  *)
(* it offers and what must have loaded before it offers them, and where an *)
(* answer leads.  Layout, wording and the validation a field does before   *)
(* anything is sent are left out.                                          *)
(***************************************************************************)
EXTENDS Hooks

\* The ways out of a page that an answer takes: a page's name, or to stay.
Stay == ""

\* A form or a button: the mutation it sends, the queries without which it is not shown,
\* and the page a success leads to.  It sends one request at a time: what submits it is
\* disabled while an answer is awaited.
Form(op, needs, leads) == [op |-> op, needs |-> {q.key : q \in needs}, leads |-> leads]

\* A form in a dialog over a page; `lists` are queries of its own, which it waits for.
Dialog(op, needs, lists) == Form(op, needs \cup lists, Stay)

\* signsIn and signsOut: where a new session, or the end of one, leads from here.
Page(gate, mounts, forms) ==
    [gate |-> gate, mounts |-> mounts, forms |-> forms, signsIn |-> Stay, signsOut |-> Stay]

(***************************************************************************)
(* Around every player page: components/shell                              *)
(***************************************************************************)

Header           == {useActiveWallet}
NotificationsPanel == [mounts |-> {useNotifications},
                       forms |-> {Form(useMarkNotificationsRead, {useNotifications}, Stay)}]
ChatRail         == {useChatRoom}
Composer         == {Form(useSendChatMessage, {}, Stay)}
AnnouncementTicker == {useAnnouncements}
RailSearch       == {useGameSearch}

(***************************************************************************)
(* Player pages                                                            *)
(***************************************************************************)

\* Only the lobby has the ticker; the search of the rail is mounted here in the model.
LobbyPage == Page("anyone", {useCategories, useGames("all"), useGames("category"), useRecentlyPlayed}
                            \cup AnnouncementTicker \cup RailSearch, {})

GamesPage == Page("anyone", {useCategories, useGames("category")}, {})

FavoritesPage == Page("signed in", {useFavorites}, {})

\* The round itself is GameSession's.
GamePage == Page("signed in", {useGame, useActiveWallet, useFavorites, useGameManifest, useRecentRounds},
                 {Form(useSetFavorite, {useGame}, Stay)})

WalletPage == Page("signed in", {useActiveWallet, useWallets, useDeposits("all"), useWithdrawals("all"),
                                 useTransactions("recent")}, {})

\* Nothing is offered until every list has loaded.
DepositQueries == {usePaymentMethods, useActiveWallet, useDepositLimits}
DepositPage == Page("signed in", DepositQueries,
                    {Form(useSubmitDeposit, DepositQueries, "depositStatus")})
DepositStatusPage == Page("signed in", {useDeposit}, {})

\* A wallet with a request pending is told so in place of the form.
CashOutQueries == {usePaymentMethods, useActiveWallet, useWithdrawalLimits, useWithdrawals("pending")}
CashOutPage == Page("signed in", CashOutQueries,
                    {Form(useSubmitWithdrawal, CashOutQueries, "withdrawalStatus")})
WithdrawalStatusPage == Page("signed in", {useWithdrawal},
                             {Form(useCancelWithdrawal, {useWithdrawal}, Stay)})

\* Two lists behind one filter: the one not chosen is disabled.
HistoryPage == Page("signed in", {useTransactions("filter"), useWalletSummary}, {})
HistoryRounds == Page("signed in", {useRounds, useWalletSummary}, {})

AccountPage == [Page("signed in", {useWallets}, {}) EXCEPT !.signsOut = "lobby"]

\* Outside the shell.
ForgotPasswordPage == Page("anyone", {}, {})
ResetPasswordPage == [Page("anyone", {}, {}) EXCEPT !.signsIn = "lobby"]

(***************************************************************************)
(* The console                                                             *)
(***************************************************************************)

\* The badges ask for the smallest page, which still carries the total.
AdminNavPanel == {useDepositQueue("badge"), useAdminWithdrawals("badge")}
AdminConsoleSearch == {useConsoleSearch}

AdminLoginPage == [Page("no operator", {}, {}) EXCEPT !.signsIn = "dashboard"]

DepositReviewDrawer(needs)   == Dialog(useReviewDeposit, needs, {})
WithdrawalReviewModal(needs) == Dialog(useReviewWithdrawal, needs, {})
WalletAdjustDialog(needs)    == Dialog(useAdjustWallet, needs, {})

\* The game form shows once the categories and currencies it chooses from are in.
GameLists == {useAllCategories, useCurrencies}
GameFormDialog(op, needs)        == Dialog(op, needs, GameLists)
AnnouncementFormDialog(op, needs) == Dialog(op, needs, {})
PaymentMethodDialog(op, needs)   == Dialog(op, needs, {})
SwitchDialog(needs)              == Dialog(useSetGameRtp, needs, {})

Console(mounts, forms) ==
    [Page("operator", mounts, forms) EXCEPT !.signsOut = "adminLogin"]

AdminDashboardPage ==
    Console({useCurrencies, useDashboard, useDepositQueue("top"), useAuditEntries("top")},
            {DepositReviewDrawer({useDepositQueue("top")})})

AdminDepositsPage == Console({useAdminDeposits}, {DepositReviewDrawer({useAdminDeposits})})

AdminWithdrawalsPage ==
    Console({useAdminWithdrawals("page")}, {WithdrawalReviewModal({useAdminWithdrawals("page")})})

AdminUsersPage == Console({useAdminUsers, useUserCounts} \cup AdminConsoleSearch, {})

\* One tab's list at a time, under the account and its wallets.
AdminUserDetailPage(tab) ==
    Console({useAdminUser, useAdminUserWallets, tab},
            {Form(useSetUserStatus, {useAdminUser}, Stay),
             WalletAdjustDialog({useAdminUser, useAdminUserWallets})})
DepositsTab    == AdminUserDetailPage(useUserDeposits)
RoundsTab      == AdminUserDetailPage(useUserRounds)
AdjustmentsTab == AdminUserDetailPage(useUserAdjustments)

AdminTransactionsPage   == Console({useAdminTransactions}, {})
AdminTransactionsRounds == Console({useAdminRounds}, {})
AdminRoundsPage         == Console({useAdminRounds}, {})

AdminGamesPage ==
    Console({useAdminGames} \cup GameLists,
            {[GameFormDialog(useCreateGame, {}) EXCEPT !.leads = "gameDetail"]})
AdminGameDetailPage ==
    Console({useAdminGame} \cup GameLists, {GameFormDialog(useUpdateGame, {useAdminGame})})

AdminRtpPage == Console({useAdminGames}, {SwitchDialog({useAdminGames})})
AdminRtpConfigurationPage == Console({useAdminGame, useAdminRtpConfiguration}, {})

AdminAnnouncementsPage ==
    Console({useAdminAnnouncements},
            {AnnouncementFormDialog(useCreateAnnouncement, {}),
             AnnouncementFormDialog(useUpdateAnnouncement, {useAdminAnnouncements}),
             Form(useSetAnnouncementStatus, {useAdminAnnouncements}, Stay)})

AdminAuditPage == Console({useAuditEntries("page")}, {})

MethodsTab ==
    Console({useAdminPaymentMethods},
            {PaymentMethodDialog(useCreatePaymentMethod, {}),
             PaymentMethodDialog(useUpdatePaymentMethod, {useAdminPaymentMethods})})
StaffTab == Console({useStaff}, {Form(useSetStaffAlerts, {useStaff}, Stay)})

\* Says what is planned, and reads nothing.
AdminPromotionsPage == Console({}, {})

(***************************************************************************)
(* Routes                                                                  *)
(***************************************************************************)

\* routes/AppRoutes.tsx, with one entry for each tab of a page that mounts its own queries.
AppRoutes ==
    [lobby |-> LobbyPage, games |-> GamesPage, favorites |-> FavoritesPage, game |-> GamePage,
     wallet |-> WalletPage, deposit |-> DepositPage, cashOut |-> CashOutPage,
     history |-> HistoryPage, historyRounds |-> HistoryRounds, account |-> AccountPage,
     forgot |-> ForgotPasswordPage, reset |-> ResetPasswordPage,
     dashboard |-> AdminDashboardPage, adminDeposits |-> AdminDepositsPage,
     adminWithdrawals |-> AdminWithdrawalsPage, users |-> AdminUsersPage,
     userDeposits |-> DepositsTab, userRounds |-> RoundsTab, userAdjustments |-> AdjustmentsTab,
     transactions |-> AdminTransactionsPage, transactionRounds |-> AdminTransactionsRounds,
     rounds |-> AdminRoundsPage, adminGames |-> AdminGamesPage, rtp |-> AdminRtpPage,
     rtpGame |-> AdminRtpConfigurationPage, announcements |-> AdminAnnouncementsPage,
     audit |-> AdminAuditPage, methods |-> MethodsTab, staff |-> StaffTab,
     promotions |-> AdminPromotionsPage, adminLogin |-> AdminLoginPage,
     depositStatus |-> DepositStatusPage, withdrawalStatus |-> WithdrawalStatusPage,
     gameDetail |-> AdminGameDetailPage]

Pages == DOMAIN AppRoutes
Route(p) == AppRoutes[p]
ConsolePages == {p \in Pages : Route(p).gate = "operator"}
PlayerPages == Pages \ (ConsolePages \cup {"adminLogin", "forgot", "reset"})

\* What stays mounted from one player page to another, and from one console page to another.
AppShell == Header \cup NotificationsPanel.mounts \cup ChatRail
AdminShell == AdminNavPanel
Shell(p) ==
    IF p \in PlayerPages THEN AppShell ELSE IF p \in ConsolePages THEN AdminShell ELSE {}

\* A query is mounted with a page for whoever is signed in; one that needs a session is
\* disabled, or not rendered, without one.
IsMounted(q, p, signedIn) ==
    /\ q \in Route(p).mounts \cup Shell(p)
    /\ q.scope = "public" \/ signedIn

\* The shell's forms outlive a player page.
ShellForms == NotificationsPanel.forms \cup Composer
Forms(p) == Route(p).forms \cup (IF p \in PlayerPages THEN ShellForms ELSE {})

\* Signing in or out without leaving the page renders anew what looks at the session, and
\* with it the queries it mounts.  These do not look, and keep what they had.
IgnoreSession(p) ==
    ChatRail \cup AnnouncementTicker \cup RailSearch
        \cup (IF p = "games" THEN GamesPage.mounts ELSE {})

AllForms == UNION {Forms(p) : p \in Pages}
Mutations == {f.op : f \in AllForms}
Queries == UNION {Route(p).mounts \cup Shell(p) : p \in Pages}
=============================================================================
