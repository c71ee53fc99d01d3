---------------------------- MODULE ClientProofs ----------------------------
(***************************************************************************)
(* Proofs about the browser client: what a tab shows and sends, for any    *)
(* users, mutations, queries, number of requests and number of events.     *)
(***************************************************************************)
EXTENDS Client, SequenceTheorems, FiniteSetTheorems, TLAPS

-----------------------------------------------------------------------------
(* The tables of routes, hooks and forms *)

Gates == {"anyone", "signed in", "operator", "no operator"}

\* The mutations whose success leads to another page, and the pages they are offered on.
Leading == {"submitDeposit", "submitWithdrawal", "createGame"}
LeadsFrom == {"deposit", "cashOut", "adminGames"}
LeadsTo == {"depositStatus", "withdrawalStatus", "gameDetail"}

Decent(row) ==
    /\ row.gate \in Gates
    /\ row.signsIn \in {Stay, "lobby", "dashboard"}
    /\ row.signsOut \in {Stay, "lobby", "adminLogin"}

LEMMA PageFields ==
    ASSUME NEW gate, NEW mounts, NEW forms
    PROVE  /\ Page(gate, mounts, forms).gate = gate
           /\ Page(gate, mounts, forms).mounts = mounts
           /\ Page(gate, mounts, forms).forms = forms
           /\ gate \in Gates => Decent(Page(gate, mounts, forms))
           /\ Console(mounts, forms).gate = "operator"
           /\ Console(mounts, forms).mounts = mounts
           /\ Console(mounts, forms).forms = forms
           /\ Decent(Console(mounts, forms))
BY DEF Decent, Gates, Page, Console

LEMMA PagesDecent ==
    /\ Decent(LobbyPage) /\ Decent(GamesPage) /\ Decent(FavoritesPage) /\ Decent(GamePage)
    /\ Decent(WalletPage) /\ Decent(DepositPage) /\ Decent(CashOutPage) /\ Decent(HistoryPage)
    /\ Decent(HistoryRounds) /\ Decent(DepositStatusPage) /\ Decent(WithdrawalStatusPage)
    /\ Decent(ForgotPasswordPage) /\ Decent(AccountPage) /\ Decent(ResetPasswordPage)
    /\ Decent(AdminLoginPage) /\ Decent(AdminPromotionsPage)
    /\ Decent(AdminDashboardPage) /\ Decent(AdminDepositsPage) /\ Decent(AdminWithdrawalsPage)
    /\ Decent(AdminUsersPage) /\ Decent(DepositsTab) /\ Decent(RoundsTab) /\ Decent(AdjustmentsTab)
    /\ Decent(AdminTransactionsPage) /\ Decent(AdminTransactionsRounds) /\ Decent(AdminRoundsPage)
    /\ Decent(AdminGamesPage) /\ Decent(AdminRtpPage) /\ Decent(AdminRtpConfigurationPage)
    /\ Decent(AdminAnnouncementsPage) /\ Decent(AdminAuditPage) /\ Decent(MethodsTab)
    /\ Decent(StaffTab) /\ Decent(AdminGameDetailPage)
<1>1. /\ Decent(AccountPage) /\ Decent(ResetPasswordPage) /\ Decent(AdminLoginPage)
  BY DEF Decent, Gates, Page, AccountPage, ResetPasswordPage, AdminLoginPage
<1> QED
  BY <1>1, PageFields
     DEF Gates, LobbyPage, GamesPage, FavoritesPage, GamePage, WalletPage, DepositPage, CashOutPage,
         HistoryPage, HistoryRounds, DepositStatusPage, WithdrawalStatusPage, ForgotPasswordPage,
         AdminPromotionsPage, AdminDashboardPage, AdminDepositsPage, AdminWithdrawalsPage, AdminUsersPage,
         DepositsTab, RoundsTab, AdjustmentsTab, AdminUserDetailPage, AdminTransactionsPage,
         AdminTransactionsRounds, AdminRoundsPage, AdminGamesPage, AdminRtpPage, AdminRtpConfigurationPage,
         AdminAnnouncementsPage, AdminAuditPage, MethodsTab, StaffTab, AdminGameDetailPage

LEMMA RouteTable == \A p \in Pages : Decent(Route(p))
BY PagesDecent DEF Pages, Route, AppRoutes

\* The pages that gates and sign-ins lead to, and the two outside every shell.
LEMMA KnownRoutes ==
    /\ {"lobby", "dashboard", "adminLogin", "forgot", "reset"} \cup LeadsTo \cup LeadsFrom \subseteq Pages
    /\ Route("lobby").gate = "anyone" /\ Route("dashboard").gate = "operator"
    /\ Route("adminLogin").gate = "no operator" /\ Route("adminLogin").forms = {}
    /\ \A p \in {"forgot", "reset"} : Route(p).gate = "anyone" /\ Route(p).mounts = {} /\ Route(p).forms = {}
<1>1. /\ {"lobby", "dashboard", "adminLogin", "forgot", "reset"} \subseteq Pages
      /\ LeadsTo \cup LeadsFrom \subseteq Pages
  BY DEF Pages, AppRoutes, LeadsTo, LeadsFrom
<1>2. /\ Route("lobby") = LobbyPage /\ Route("dashboard") = AdminDashboardPage
      /\ Route("adminLogin") = AdminLoginPage
      /\ Route("forgot") = ForgotPasswordPage /\ Route("reset") = ResetPasswordPage
  BY DEF Route, AppRoutes
<1>3. /\ LobbyPage.gate = "anyone" /\ AdminDashboardPage.gate = "operator"
      /\ ForgotPasswordPage.gate = "anyone" /\ ForgotPasswordPage.mounts = {} /\ ForgotPasswordPage.forms = {}
  BY PageFields DEF LobbyPage, AdminDashboardPage, ForgotPasswordPage
<1>4. /\ AdminLoginPage.gate = "no operator" /\ AdminLoginPage.forms = {}
      /\ ResetPasswordPage.gate = "anyone" /\ ResetPasswordPage.mounts = {} /\ ResetPasswordPage.forms = {}
  BY DEF AdminLoginPage, ResetPasswordPage, Page
<1> QED
  BY <1>1, <1>2, <1>3, <1>4

LEMMA Sections ==
    /\ "lobby" \in PlayerPages /\ {"adminLogin", "forgot", "reset"} \cap PlayerPages = {}
    /\ PlayerPages \subseteq Pages /\ ConsolePages \subseteq Pages /\ PlayerPages \cap ConsolePages = {}
    /\ \A p \in Pages : Route(p).gate = "signed in" => p \in PlayerPages
    /\ \A p \in Pages \ {"adminLogin", "forgot", "reset"} : p \in PlayerPages \/ p \in ConsolePages
BY KnownRoutes DEF PlayerPages, ConsolePages

-----------------------------------------------------------------------------
(* Forms *)

MutationHooks ==
    {useSubmitDeposit, useSubmitWithdrawal, useCancelWithdrawal, useMarkNotificationsRead, useSetFavorite,
     useCreateAnnouncement, useUpdateAnnouncement, useSetAnnouncementStatus, useSendChatMessage,
     useReviewDeposit, useReviewWithdrawal, useAdjustWallet, useSetUserStatus, useCreateGame, useUpdateGame,
     useSetGameRtp, useCreatePaymentMethod, useUpdatePaymentMethod, useSetStaffAlerts}

LEMMA HookNames ==
    /\ useSubmitDeposit.name = "submitDeposit" /\ useSubmitWithdrawal.name = "submitWithdrawal"
    /\ useCancelWithdrawal.name = "cancelWithdrawal"
    /\ useMarkNotificationsRead.name = "markNotificationsRead" /\ useSetFavorite.name = "setFavorite"
    /\ useCreateAnnouncement.name = "createAnnouncement" /\ useUpdateAnnouncement.name = "updateAnnouncement"
    /\ useSetAnnouncementStatus.name = "setAnnouncementStatus" /\ useSendChatMessage.name = "sendChatMessage"
    /\ useReviewDeposit.name = "reviewDeposit" /\ useReviewWithdrawal.name = "reviewWithdrawal"
    /\ useAdjustWallet.name = "adjustWallet" /\ useSetUserStatus.name = "setUserStatus"
    /\ useCreateGame.name = "createGame" /\ useUpdateGame.name = "updateGame"
    /\ useSetGameRtp.name = "setGameRtp" /\ useCreatePaymentMethod.name = "createPaymentMethod"
    /\ useUpdatePaymentMethod.name = "updatePaymentMethod" /\ useSetStaffAlerts.name = "setStaffAlerts"
<1>1. ASSUME NEW name, NEW write, NEW stales
      PROVE  OnSuccess(name, write, stales).name = name /\ OnSettled(name, write, stales).name = name
  BY DEF OnSuccess, OnSettled
<1> QED
  BY <1>1
     DEF useSubmitDeposit, useSubmitWithdrawal, useCancelWithdrawal, useWithdrawalMutation,
         useMarkNotificationsRead, useSetFavorite, useCreateAnnouncement, useUpdateAnnouncement,
         useSetAnnouncementStatus, useSendChatMessage, useReviewDeposit, useReviewWithdrawal,
         useAdjustWallet, useSetUserStatus, useCreateGame, useUpdateGame, useSetGameRtp,
         useCreatePaymentMethod, useUpdatePaymentMethod, useSetStaffAlerts

\* The forms offer these mutations, and their successes stay on the page.
Offer(forms, ops) == \A f \in forms : f.op \in ops /\ f.leads = Stay

\* The form offers this mutation, and its success leads to that page.
Lead(forms, op, to) == \A f \in forms : f.op = op /\ f.leads = to

LEMMA FormFields ==
    ASSUME NEW op, NEW needs, NEW leads, NEW lists
    PROVE  /\ Form(op, needs, leads).op = op /\ Form(op, needs, leads).leads = leads
           /\ Dialog(op, needs, lists).op = op /\ Dialog(op, needs, lists).leads = Stay
           /\ [Dialog(op, needs, lists) EXCEPT !.leads = leads].op = op
           /\ [Dialog(op, needs, lists) EXCEPT !.leads = leads].leads = leads
BY DEF Form, Dialog

LEMMA Offers ==
    ASSUME NEW op, NEW needs, NEW lists, NEW leads
    PROVE  /\ Offer({}, {}) /\ Offer({Form(op, needs, Stay)}, {op}) /\ Offer({Dialog(op, needs, lists)}, {op})
           /\ Lead({Form(op, needs, leads)}, op, leads)
           /\ Lead({[Dialog(op, needs, lists) EXCEPT !.leads = leads]}, op, leads)
BY FormFields DEF Offer, Lead

LEMMA OfferMore ==
    ASSUME NEW forms, NEW others, NEW ops, NEW more, Offer(forms, ops), Offer(others, more)
    PROVE  Offer(forms \cup others, ops \cup more)
BY DEF Offer

LEMMA PlayerForms ==
    /\ Offer(ShellForms, {useMarkNotificationsRead} \cup {useSendChatMessage})
    /\ Offer(GamePage.forms, {useSetFavorite})
    /\ Lead(DepositPage.forms, useSubmitDeposit, "depositStatus")
    /\ Lead(CashOutPage.forms, useSubmitWithdrawal, "withdrawalStatus")
    /\ Offer(WithdrawalStatusPage.forms, {useCancelWithdrawal})
    /\ LobbyPage.forms = {} /\ GamesPage.forms = {} /\ FavoritesPage.forms = {} /\ WalletPage.forms = {}
    /\ DepositStatusPage.forms = {} /\ HistoryPage.forms = {} /\ HistoryRounds.forms = {}
    /\ ForgotPasswordPage.forms = {} /\ AccountPage.forms = {} /\ ResetPasswordPage.forms = {}
<1>1. Offer(ShellForms, {useMarkNotificationsRead} \cup {useSendChatMessage})
  <2>1. /\ Offer({Form(useMarkNotificationsRead, {useNotifications}, Stay)}, {useMarkNotificationsRead})
        /\ Offer({Form(useSendChatMessage, {}, Stay)}, {useSendChatMessage})
    BY Offers
  <2>2. ShellForms = {Form(useMarkNotificationsRead, {useNotifications}, Stay)}
                      \cup {Form(useSendChatMessage, {}, Stay)}
    BY DEF ShellForms, NotificationsPanel, Composer
  <2> QED
    BY <2>1, <2>2, OfferMore
<1>2. /\ GamePage.forms = {Form(useSetFavorite, {useGame}, Stay)}
      /\ DepositPage.forms = {Form(useSubmitDeposit, DepositQueries, "depositStatus")}
      /\ CashOutPage.forms = {Form(useSubmitWithdrawal, CashOutQueries, "withdrawalStatus")}
      /\ WithdrawalStatusPage.forms = {Form(useCancelWithdrawal, {useWithdrawal}, Stay)}
  BY DEF GamePage, DepositPage, CashOutPage, WithdrawalStatusPage, Page
<1>a. /\ Offer(GamePage.forms, {useSetFavorite}) /\ Offer(WithdrawalStatusPage.forms, {useCancelWithdrawal})
      /\ Lead(DepositPage.forms, useSubmitDeposit, "depositStatus")
      /\ Lead(CashOutPage.forms, useSubmitWithdrawal, "withdrawalStatus")
  <2>1. /\ Offer({Form(useSetFavorite, {useGame}, Stay)}, {useSetFavorite})
        /\ Offer({Form(useCancelWithdrawal, {useWithdrawal}, Stay)}, {useCancelWithdrawal})
    BY Offers
  <2>2. /\ Lead({Form(useSubmitDeposit, DepositQueries, "depositStatus")}, useSubmitDeposit, "depositStatus")
        /\ Lead({Form(useSubmitWithdrawal, CashOutQueries, "withdrawalStatus")}, useSubmitWithdrawal,
                "withdrawalStatus")
    BY Offers
  <2> QED
    BY <1>2, <2>1, <2>2
<1>3. AccountPage.forms = {} /\ ResetPasswordPage.forms = {}
  BY DEF AccountPage, ResetPasswordPage, Page
<1>4. /\ LobbyPage.forms = {} /\ GamesPage.forms = {} /\ FavoritesPage.forms = {} /\ WalletPage.forms = {}
      /\ DepositStatusPage.forms = {} /\ HistoryPage.forms = {} /\ HistoryRounds.forms = {}
      /\ ForgotPasswordPage.forms = {}
  <2>1. LobbyPage.forms = {} /\ GamesPage.forms = {} /\ FavoritesPage.forms = {}
    BY DEF Page, LobbyPage, GamesPage, FavoritesPage
  <2>2. WalletPage.forms = {} /\ DepositStatusPage.forms = {}
    BY DEF Page, WalletPage, DepositStatusPage
  <2>3. HistoryPage.forms = {} /\ HistoryRounds.forms = {} /\ ForgotPasswordPage.forms = {}
    BY DEF Page, HistoryPage, HistoryRounds, ForgotPasswordPage
  <2> QED
    BY <2>1, <2>2, <2>3
<1> QED
  BY <1>1, <1>a, <1>3, <1>4

LEMMA ConsoleForms ==
    /\ Offer(AdminDashboardPage.forms, {useReviewDeposit}) /\ Offer(AdminDepositsPage.forms, {useReviewDeposit})
    /\ Offer(AdminWithdrawalsPage.forms, {useReviewWithdrawal})
    /\ \A tab : Offer(AdminUserDetailPage(tab).forms, {useSetUserStatus} \cup {useAdjustWallet})
    /\ Lead(AdminGamesPage.forms, useCreateGame, "gameDetail") /\ Offer(AdminGameDetailPage.forms, {useUpdateGame})
    /\ Offer(AdminRtpPage.forms, {useSetGameRtp})
    /\ Offer(AdminAnnouncementsPage.forms,
             ({useCreateAnnouncement} \cup {useUpdateAnnouncement}) \cup {useSetAnnouncementStatus})
    /\ Offer(MethodsTab.forms, {useCreatePaymentMethod} \cup {useUpdatePaymentMethod})
    /\ Offer(StaffTab.forms, {useSetStaffAlerts})
    /\ AdminUsersPage.forms = {} /\ AdminTransactionsPage.forms = {} /\ AdminTransactionsRounds.forms = {}
    /\ AdminRoundsPage.forms = {} /\ AdminRtpConfigurationPage.forms = {} /\ AdminAuditPage.forms = {}
    /\ AdminPromotionsPage.forms = {} /\ AdminLoginPage.forms = {}
<1>1. /\ Offer(AdminDashboardPage.forms, {useReviewDeposit}) /\ Offer(AdminDepositsPage.forms, {useReviewDeposit})
      /\ Offer(AdminWithdrawalsPage.forms, {useReviewWithdrawal})
      /\ Offer(AdminGameDetailPage.forms, {useUpdateGame}) /\ Offer(AdminRtpPage.forms, {useSetGameRtp})
  <2>1. /\ AdminDashboardPage.forms = {DepositReviewDrawer({useDepositQueue("top")})}
        /\ AdminDepositsPage.forms = {DepositReviewDrawer({useAdminDeposits})}
        /\ AdminWithdrawalsPage.forms = {WithdrawalReviewModal({useAdminWithdrawals("page")})}
        /\ AdminGameDetailPage.forms = {GameFormDialog(useUpdateGame, {useAdminGame})}
        /\ AdminRtpPage.forms = {SwitchDialog({useAdminGames})}
    BY PageFields
       DEF AdminDashboardPage, AdminDepositsPage, AdminWithdrawalsPage, AdminGameDetailPage, AdminRtpPage
  <2>2. \A needs : /\ Offer({DepositReviewDrawer(needs)}, {useReviewDeposit})
                   /\ Offer({WithdrawalReviewModal(needs)}, {useReviewWithdrawal})
    BY Offers DEF DepositReviewDrawer, WithdrawalReviewModal
  <2>3. \A needs : /\ Offer({GameFormDialog(useUpdateGame, needs)}, {useUpdateGame})
                   /\ Offer({SwitchDialog(needs)}, {useSetGameRtp})
    BY Offers DEF GameFormDialog, SwitchDialog
  <2>4. /\ Offer(AdminDashboardPage.forms, {useReviewDeposit}) /\ Offer(AdminDepositsPage.forms, {useReviewDeposit})
        /\ Offer(AdminWithdrawalsPage.forms, {useReviewWithdrawal})
    BY Zenon, <2>1, <2>2
  <2>5. Offer(AdminGameDetailPage.forms, {useUpdateGame}) /\ Offer(AdminRtpPage.forms, {useSetGameRtp})
    BY Zenon, <2>1, <2>3
  <2> QED
    BY <2>4, <2>5
<1>2. ASSUME NEW tab PROVE Offer(AdminUserDetailPage(tab).forms, {useSetUserStatus} \cup {useAdjustWallet})
  <2> DEFINE needs == {useAdminUser, useAdminUserWallets}
  <2>1. AdminUserDetailPage(tab).forms = {Form(useSetUserStatus, {useAdminUser}, Stay), WalletAdjustDialog(needs)}
    BY PageFields DEF AdminUserDetailPage
  <2>2. /\ Offer({Form(useSetUserStatus, {useAdminUser}, Stay)}, {useSetUserStatus})
        /\ Offer({WalletAdjustDialog(needs)}, {useAdjustWallet})
    BY Offers DEF WalletAdjustDialog
  <2>3. AdminUserDetailPage(tab).forms
          = {Form(useSetUserStatus, {useAdminUser}, Stay)} \cup {WalletAdjustDialog(needs)}
    BY <2>1
  <2> QED
    BY <2>2, <2>3, OfferMore
<1>3. Lead(AdminGamesPage.forms, useCreateGame, "gameDetail")
  <2>1. AdminGamesPage.forms = {[GameFormDialog(useCreateGame, {}) EXCEPT !.leads = "gameDetail"]}
    BY PageFields DEF AdminGamesPage
  <2>2. GameFormDialog(useCreateGame, {}) = Dialog(useCreateGame, {}, GameLists)
    BY DEF GameFormDialog
  <2>3. Lead({[Dialog(useCreateGame, {}, GameLists) EXCEPT !.leads = "gameDetail"]}, useCreateGame, "gameDetail")
    BY Offers
  <2> QED
    BY <2>1, <2>2, <2>3
<1>4. Offer(AdminAnnouncementsPage.forms,
            ({useCreateAnnouncement} \cup {useUpdateAnnouncement}) \cup {useSetAnnouncementStatus})
  <2> DEFINE create == {AnnouncementFormDialog(useCreateAnnouncement, {})}
             update == {AnnouncementFormDialog(useUpdateAnnouncement, {useAdminAnnouncements})}
             status == {Form(useSetAnnouncementStatus, {useAdminAnnouncements}, Stay)}
  <2>1. AdminAnnouncementsPage.forms
          = {AnnouncementFormDialog(useCreateAnnouncement, {}),
             AnnouncementFormDialog(useUpdateAnnouncement, {useAdminAnnouncements}),
             Form(useSetAnnouncementStatus, {useAdminAnnouncements}, Stay)}
    BY PageFields DEF AdminAnnouncementsPage
  <2>2. AdminAnnouncementsPage.forms = (create \cup update) \cup status
    BY <2>1
  <2>3. /\ Offer(create, {useCreateAnnouncement}) /\ Offer(update, {useUpdateAnnouncement})
        /\ Offer(status, {useSetAnnouncementStatus})
    BY Offers DEF AnnouncementFormDialog
  <2> HIDE DEF create, update, status
  <2>4. Offer(create \cup update, {useCreateAnnouncement} \cup {useUpdateAnnouncement})
    BY <2>3, OfferMore
  <2> QED
    BY <2>2, <2>3, <2>4, OfferMore
<1>5. Offer(MethodsTab.forms, {useCreatePaymentMethod} \cup {useUpdatePaymentMethod})
  <2> DEFINE create == {PaymentMethodDialog(useCreatePaymentMethod, {})}
             update == {PaymentMethodDialog(useUpdatePaymentMethod, {useAdminPaymentMethods})}
  <2>1. MethodsTab.forms = {PaymentMethodDialog(useCreatePaymentMethod, {}),
                            PaymentMethodDialog(useUpdatePaymentMethod, {useAdminPaymentMethods})}
    BY PageFields DEF MethodsTab
  <2>2. MethodsTab.forms = create \cup update
    BY <2>1
  <2>3. Offer(create, {useCreatePaymentMethod}) /\ Offer(update, {useUpdatePaymentMethod})
    BY Offers DEF PaymentMethodDialog
  <2> HIDE DEF create, update
  <2> QED
    BY <2>2, <2>3, OfferMore
<1>6. Offer(StaffTab.forms, {useSetStaffAlerts})
  <2>1. StaffTab.forms = {Form(useSetStaffAlerts, {useStaff}, Stay)}
    BY PageFields DEF StaffTab
  <2> QED
    BY <2>1, Offers
<1>7. AdminLoginPage.forms = {}
  BY DEF AdminLoginPage, Page
<1>8. /\ AdminUsersPage.forms = {} /\ AdminTransactionsPage.forms = {} /\ AdminTransactionsRounds.forms = {}
      /\ AdminRoundsPage.forms = {} /\ AdminRtpConfigurationPage.forms = {} /\ AdminAuditPage.forms = {}
      /\ AdminPromotionsPage.forms = {}
  BY PageFields
     DEF AdminUsersPage, AdminTransactionsPage, AdminTransactionsRounds,
         AdminRoundsPage, AdminRtpConfigurationPage, AdminAuditPage, AdminPromotionsPage
<1> QED
  BY <1>1, <1>2, <1>3, <1>4, <1>5, <1>6, <1>7, <1>8

\* What a page offers is a mutation of the list, and one that leads away is offered only
\* on pages it does not lead to.
Offered(p, forms) ==
    \A f \in forms : /\ f.op \in MutationHooks
                     /\ f.leads = Stay \/ (f.op.name \in Leading /\ f.leads \in LeadsTo)
                     /\ f.op.name \in Leading => p \in LeadsFrom

Keeping == MutationHooks \ {useSubmitDeposit, useSubmitWithdrawal, useCreateGame}

LEMMA KeepingNames ==
    /\ \A op \in Keeping : op.name \notin Leading
    /\ useSubmitDeposit.name \in Leading /\ useSubmitWithdrawal.name \in Leading /\ useCreateGame.name \in Leading
BY HookNames DEF Keeping, MutationHooks, Leading

LEMMA OffersOffered ==
    ASSUME NEW p, NEW forms, NEW ops \in SUBSET Keeping, Offer(forms, ops)
    PROVE  Offered(p, forms)
BY KeepingNames DEF Offer, Offered, Keeping

LEMMA LeadsOffered ==
    ASSUME NEW p \in LeadsFrom, NEW forms, NEW op \in MutationHooks, NEW to \in LeadsTo,
           op.name \in Leading, Lead(forms, op, to)
    PROVE  Offered(p, forms)
BY DEF Lead, Offered

LEMMA KeepingHooks ==
    /\ useCancelWithdrawal \in Keeping /\ useMarkNotificationsRead \in Keeping /\ useSetFavorite \in Keeping
    /\ useCreateAnnouncement \in Keeping /\ useUpdateAnnouncement \in Keeping
    /\ useSetAnnouncementStatus \in Keeping /\ useSendChatMessage \in Keeping
    /\ useReviewDeposit \in Keeping /\ useReviewWithdrawal \in Keeping /\ useAdjustWallet \in Keeping
    /\ useSetUserStatus \in Keeping /\ useUpdateGame \in Keeping /\ useSetGameRtp \in Keeping
    /\ useCreatePaymentMethod \in Keeping /\ useUpdatePaymentMethod \in Keeping /\ useSetStaffAlerts \in Keeping
BY HookNames DEF Keeping, MutationHooks

LEMMA FormTable == \A p \in Pages : Offered(p, Forms(p))
<1>1. \A p : Offered(p, {})
  BY DEF Offered
<1>2. \A p : /\ Offered(p, ShellForms) /\ Offered(p, GamePage.forms) /\ Offered(p, WithdrawalStatusPage.forms)
  BY PlayerForms, KeepingHooks, OffersOffered
<1>3. \A p : /\ Offered(p, AdminDashboardPage.forms) /\ Offered(p, AdminDepositsPage.forms)
             /\ Offered(p, AdminWithdrawalsPage.forms) /\ Offered(p, AdminGameDetailPage.forms)
             /\ Offered(p, AdminRtpPage.forms) /\ Offered(p, StaffTab.forms)
  BY ConsoleForms, KeepingHooks, OffersOffered
<1>4. \A p : Offered(p, AdminAnnouncementsPage.forms) /\ Offered(p, MethodsTab.forms)
  BY ConsoleForms, KeepingHooks, OffersOffered
<1>5. \A p : Offered(p, DepositsTab.forms) /\ Offered(p, RoundsTab.forms) /\ Offered(p, AdjustmentsTab.forms)
  BY ConsoleForms, KeepingHooks, OffersOffered DEF DepositsTab, RoundsTab, AdjustmentsTab
<1>6. /\ Offered("deposit", DepositPage.forms) /\ Offered("cashOut", CashOutPage.forms)
      /\ Offered("adminGames", AdminGamesPage.forms)
  <2>1. /\ "deposit" \in LeadsFrom /\ "cashOut" \in LeadsFrom /\ "adminGames" \in LeadsFrom
        /\ "depositStatus" \in LeadsTo /\ "withdrawalStatus" \in LeadsTo /\ "gameDetail" \in LeadsTo
    BY DEF LeadsFrom, LeadsTo
  <2>2. /\ useSubmitDeposit \in MutationHooks /\ useSubmitWithdrawal \in MutationHooks
        /\ useCreateGame \in MutationHooks
    BY DEF MutationHooks
  <2> QED
    BY <2>1, <2>2, KeepingNames, PlayerForms, ConsoleForms, LeadsOffered
<1>7. \A p \in Pages : Offered(p, Route(p).forms)
  <2> SUFFICES ASSUME NEW p \in Pages PROVE Offered(p, Route(p).forms)
    OBVIOUS
  <2>1. CASE Route(p).forms = {}
    BY <1>1, <2>1
  <2>2. CASE p \in LeadsFrom
    <3>1. /\ Route("deposit") = DepositPage /\ Route("cashOut") = CashOutPage
          /\ Route("adminGames") = AdminGamesPage
      BY DEF Route, AppRoutes
    <3> QED
      BY <1>6, <2>2, <3>1 DEF LeadsFrom
  <2>3. CASE p \in {"game", "withdrawalStatus", "dashboard", "adminDeposits", "adminWithdrawals", "gameDetail",
                    "rtp", "staff", "announcements", "methods", "userDeposits", "userRounds", "userAdjustments"}
    <3>1. /\ Route("game") = GamePage /\ Route("withdrawalStatus") = WithdrawalStatusPage
          /\ Route("dashboard") = AdminDashboardPage /\ Route("adminDeposits") = AdminDepositsPage
          /\ Route("adminWithdrawals") = AdminWithdrawalsPage /\ Route("gameDetail") = AdminGameDetailPage
          /\ Route("rtp") = AdminRtpPage /\ Route("staff") = StaffTab
          /\ Route("announcements") = AdminAnnouncementsPage /\ Route("methods") = MethodsTab
          /\ Route("userDeposits") = DepositsTab /\ Route("userRounds") = RoundsTab
          /\ Route("userAdjustments") = AdjustmentsTab
      BY DEF Route, AppRoutes
    <3> QED
      BY <1>2, <1>3, <1>4, <1>5, <2>3, <3>1
  <2>4. \/ p \in LeadsFrom
        \/ p \in {"game", "withdrawalStatus", "dashboard", "adminDeposits", "adminWithdrawals", "gameDetail",
                  "rtp", "staff", "announcements", "methods", "userDeposits", "userRounds", "userAdjustments"}
        \/ p \in {"lobby", "games", "favorites", "wallet", "history", "historyRounds", "account", "forgot", "reset",
                  "depositStatus"}
        \/ p \in {"users", "transactions", "transactionRounds", "rounds", "rtpGame", "audit", "promotions",
                  "adminLogin"}
    BY DEF Pages, AppRoutes, LeadsFrom
  <2>5. CASE p \in {"lobby", "games", "favorites", "wallet", "history", "historyRounds", "account", "forgot", "reset",
                    "depositStatus"}
    <3>1. /\ Route("lobby") = LobbyPage /\ Route("games") = GamesPage /\ Route("favorites") = FavoritesPage
          /\ Route("wallet") = WalletPage /\ Route("history") = HistoryPage
          /\ Route("historyRounds") = HistoryRounds /\ Route("account") = AccountPage
          /\ Route("forgot") = ForgotPasswordPage /\ Route("reset") = ResetPasswordPage
          /\ Route("depositStatus") = DepositStatusPage
      BY DEF Route, AppRoutes
    <3> QED
      BY <2>1, <2>5, <3>1, PlayerForms
  <2>6. CASE p \in {"users", "transactions", "transactionRounds", "rounds", "rtpGame", "audit", "promotions",
                    "adminLogin"}
    <3>1. /\ Route("users") = AdminUsersPage /\ Route("transactions") = AdminTransactionsPage
          /\ Route("transactionRounds") = AdminTransactionsRounds /\ Route("rounds") = AdminRoundsPage
          /\ Route("rtpGame") = AdminRtpConfigurationPage /\ Route("audit") = AdminAuditPage
          /\ Route("promotions") = AdminPromotionsPage /\ Route("adminLogin") = AdminLoginPage
      BY DEF Route, AppRoutes
    <3> QED
      BY <2>1, <2>6, <3>1, ConsoleForms
  <2> QED
    BY <2>2, <2>3, <2>4, <2>5, <2>6
<1> QED
  BY <1>1, <1>2, <1>7 DEF Forms, Offered

-----------------------------------------------------------------------------
(* Queries *)

LEMMA PrefixOf ==
    ASSUME NEW S, NEW s \in Seq(S), NEW t \in Seq(S), Len(s) <= Len(t), \A i \in 1 .. Len(s) : s[i] = t[i]
    PROVE  IsPrefix(s, t)
<1>1. SubSeq(s, 1, Len(s)) = s
  OBVIOUS
<1>2. SubSeq(t, 1, Len(s)) = s
  <2>1. SubSeq(t, 1, Len(s)) \in Seq(S) /\ Len(SubSeq(t, 1, Len(s))) = Len(s)
    OBVIOUS
  <2>2. \A i \in 1 .. Len(s) : SubSeq(t, 1, Len(s))[i] = s[i]
    OBVIOUS
  <2> QED
    BY <2>1, <2>2, SeqEqual
<1> QED
  BY <1>1, <1>2 DEF IsPrefix

LEMMA KeyPrefixes ==
    ASSUME NEW a, NEW b, NEW c, NEW d
    PROVE  /\ IsPrefix(<<a>>, <<a>>) /\ IsPrefix(<<a>>, <<a, b>>) /\ IsPrefix(<<a>>, <<a, b, c>>)
           /\ IsPrefix(<<a>>, <<a, b, c, d>>)
           /\ IsPrefix(<<a, b>>, <<a, b>>) /\ IsPrefix(<<a, b>>, <<a, b, c>>)
<1> DEFINE S == {a, b, c, d}
<1>1. /\ <<a>> \in Seq(S) /\ <<a, b>> \in Seq(S) /\ <<a, b, c>> \in Seq(S) /\ <<a, b, c, d>> \in Seq(S)
  OBVIOUS
<1>2. /\ Len(<<a>>) = 1 /\ Len(<<a, b>>) = 2 /\ Len(<<a, b, c>>) = 3 /\ Len(<<a, b, c, d>>) = 4
      /\ <<a>>[1] = a /\ <<a, b>>[1] = a /\ <<a, b>>[2] = b /\ <<a, b, c>>[1] = a /\ <<a, b, c>>[2] = b
      /\ <<a, b, c, d>>[1] = a
  OBVIOUS
<1>3. PICK one, two, three, four : one = <<a>> /\ two = <<a, b>> /\ three = <<a, b, c>> /\ four = <<a, b, c, d>>
  OBVIOUS
<1> HIDE DEF S
<1>4. /\ one \in Seq(S) /\ two \in Seq(S) /\ three \in Seq(S) /\ four \in Seq(S)
      /\ Len(one) = 1 /\ Len(two) = 2 /\ Len(three) = 3 /\ Len(four) = 4
      /\ one[1] = a /\ two[1] = a /\ two[2] = b /\ three[1] = a /\ three[2] = b /\ four[1] = a
  BY <1>1, <1>2, <1>3
<1>5. IsPrefix(one, one) /\ IsPrefix(one, two) /\ IsPrefix(one, three) /\ IsPrefix(one, four)
  BY ONLY <1>4, PrefixOf
<1>6. IsPrefix(two, two) /\ IsPrefix(two, three)
  <2>1. \A i \in 1 .. 2 : two[i] = three[i]
    BY <1>4
  <2> QED
    BY ONLY <1>4, <2>1, PrefixOf
<1> QED
  BY <1>3, <1>5, <1>6

\* The tables of one player, or of the console.
Private == {"deposits", "deposit", "withdrawals", "withdrawal", "wallets", "ledger", "notifications",
            "users", "alerts", "audit", "favorites"}

\* Where a query is cached, by the tables it reads and whose rows they are.
Filed(q, prefix) == IsPrefix(prefix, q.key)
OpenIndexed(q) ==
    /\ q.scope \in {"public", "shared"}
    /\ "announcements" \in q.reads => Filed(q, <<"announcements">>)
    /\ "games" \in q.reads => Filed(q, <<"games">>) \/ Filed(q, <<"categories">>)
    /\ "game" \in q.reads => Filed(q, <<"game">>) \/ q = useGameManifest
    /\ "returns" \in q.reads => q = useGameManifest
    /\ "methods" \in q.reads => Filed(q, <<"payment-methods">>)
    /\ "chat" \in q.reads => Filed(q, <<"chat">>)
    /\ q.reads \cap Private = {}

Indexed(q) ==
    \/ /\ q.scope = "console" /\ Filed(q, <<"admin">>)
       /\ "announcements" \in q.reads => Filed(q, <<"admin", "announcements">>)
       /\ "methods" \in q.reads => Filed(q, <<"admin", "payment-methods">>)
       /\ "alerts" \in q.reads => Filed(q, <<"admin", "staff">>)
       /\ "audit" \in q.reads => /\ Filed(q, <<"admin", "audit">>)
                                 /\ q \in {useAuditEntries("page"), useAuditEntries("top")}
    \/ /\ q.scope = "own"
       /\ "deposits" \in q.reads => Filed(q, <<"deposits">>)
       /\ "withdrawals" \in q.reads \/ "withdrawal" \in q.reads => Filed(q, <<"withdrawals">>)
       /\ "wallets" \in q.reads => Filed(q, <<"wallets">>)
       /\ "ledger" \in q.reads => Filed(q, <<"transactions">>)
       /\ "notifications" \in q.reads => Filed(q, <<"notifications">>)
       /\ "favorites" \in q.reads => Filed(q, <<"favorites">>)
       /\ q.reads \cap {"chat", "audit"} = {}
    \/ OpenIndexed(q)

Lists(q, key, scope, tables) == q.key = key /\ q.scope = scope /\ q.reads = tables

LEMMA QueryLists ==
    ASSUME NEW key, NEW scope, NEW tables
    PROVE  /\ Lists(Query(key, Reads(scope, tables)), key, scope, tables)
           /\ Lists(Polling(key, Reads(scope, tables)), key, scope, tables)
BY DEF Query, Reads, Polling, Lists

\* A query is indexed if its key starts as the tables it reads require.
LEMMA ConsoleIndexed ==
    ASSUME NEW key, NEW tables, IsPrefix(<<"admin">>, key),
           tables \cap {"announcements", "methods", "alerts", "audit"} = {}
    PROVE  Indexed(Query(key, Reads("console", tables)))
BY QueryLists DEF Indexed, Filed, Lists

Owned(key, tables) ==
    /\ "deposits" \in tables => IsPrefix(<<"deposits">>, key)
    /\ "withdrawals" \in tables \/ "withdrawal" \in tables => IsPrefix(<<"withdrawals">>, key)
    /\ "wallets" \in tables => IsPrefix(<<"wallets">>, key)
    /\ "ledger" \in tables => IsPrefix(<<"transactions">>, key)
    /\ "notifications" \in tables => IsPrefix(<<"notifications">>, key)
    /\ "favorites" \in tables => IsPrefix(<<"favorites">>, key)
    /\ tables \cap {"chat", "audit"} = {}

LEMMA OwnedIndexed ==
    ASSUME NEW key, NEW tables, Owned(key, tables)
    PROVE  Indexed(Query(key, Reads("own", tables))) /\ Indexed(Polling(key, Reads("own", tables)))
<1>1. ASSUME NEW q, q.scope = "own", q.reads = tables, q.key = key
      PROVE  Indexed(q)
  BY <1>1 DEF Indexed, Owned, Filed
<1> QED
  BY <1>1, QueryLists DEF Lists

LEMMA OwnIndexed ==
    /\ Indexed(useWallets) /\ Indexed(useActiveWallet) /\ Indexed(useDeposit) /\ Indexed(useWithdrawal)
    /\ \A status : Indexed(useDeposits(status)) /\ Indexed(useWithdrawals(status)) /\ Indexed(useTransactions(status))
    /\ Indexed(useWalletSummary) /\ Indexed(useRounds) /\ Indexed(useRecentRounds) /\ Indexed(useNotifications)
    /\ Indexed(useRecentlyPlayed) /\ Indexed(useFavorites)
<1>1. \A rows : /\ Owned(<<"wallets">>, {"wallets"}) /\ Owned(<<"wallets", rows>>, {"wallets"})
                /\ Owned(<<"deposit", rows>>, {"deposit"}) /\ Owned(<<"deposits", rows>>, {"deposits"})
                /\ Owned(<<"withdrawals", rows>>, {"withdrawals"}) /\ Owned(<<"transactions", rows>>, {"ledger"})
                /\ Owned(<<"rounds", rows>>, {"rounds"})
  BY KeyPrefixes DEF Owned
<1>2. /\ Owned(<<"withdrawals", "one", "id">>, {"withdrawal"})
      /\ Owned(<<"transactions", "summary", "filter">>, {"ledger"})
      /\ Owned(<<"rounds", "recent", "game">>, {"rounds"}) /\ Owned(<<"notifications">>, {"notifications"})
      /\ Owned(<<"recently-played">>, {"rounds", "games"}) /\ Owned(<<"favorites">>, {"favorites", "games"})
  BY KeyPrefixes DEF Owned
<1>3. Indexed(useWallets) /\ Indexed(useActiveWallet) /\ Indexed(useDeposit)
  BY <1>1, OwnedIndexed DEF useWallets, useActiveWallet, useDeposit, fetchWallets, fetchWallet, fetchDeposit
<1>4. ASSUME NEW status
      PROVE  Indexed(useDeposits(status)) /\ Indexed(useWithdrawals(status)) /\ Indexed(useTransactions(status))
  BY <1>1, OwnedIndexed
     DEF useDeposits, useWithdrawals, useTransactions, fetchDeposits, fetchWithdrawals, fetchTransactions
<1>5. Indexed(useWithdrawal) /\ Indexed(useWalletSummary) /\ Indexed(useRecentRounds)
  BY <1>2, OwnedIndexed
     DEF useWithdrawal, useWalletSummary, useRecentRounds, fetchWithdrawal, fetchWalletSummary, fetchRecentRounds
<1>6. Indexed(useRounds) /\ Indexed(useNotifications) /\ Indexed(useRecentlyPlayed) /\ Indexed(useFavorites)
  BY <1>1, <1>2, OwnedIndexed
     DEF useRounds, useNotifications, useRecentlyPlayed, useFavorites,
         fetchRounds, fetchNotifications, fetchRecentlyPlayed, fetchFavorites
<1> QED
  BY <1>3, <1>4, <1>5, <1>6

LEMMA OpenQueriesIndexed ==
    /\ Indexed(useCurrencies) /\ Indexed(usePaymentMethods) /\ Indexed(useDepositLimits)
    /\ Indexed(useWithdrawalLimits) /\ Indexed(useCategories) /\ \A filter : Indexed(useGames(filter))
    /\ Indexed(useGameSearch) /\ Indexed(useGame) /\ Indexed(useGameManifest) /\ Indexed(useAnnouncements)
    /\ Indexed(useChatRoom) /\ Indexed(useAllCategories)
<1>1. ASSUME NEW q, OpenIndexed(q) PROVE Indexed(q)
  BY <1>1 DEF Indexed
<1>2. OpenIndexed(useCurrencies) /\ OpenIndexed(useDepositLimits) /\ OpenIndexed(useWithdrawalLimits)
  <2>1. /\ useCurrencies.scope = "public" /\ useCurrencies.reads = {"currencies"}
        /\ useDepositLimits.scope = "public" /\ useDepositLimits.reads = {"currencies"}
        /\ useWithdrawalLimits.scope = "public" /\ useWithdrawalLimits.reads = {"currencies"}
    BY QueryLists DEF Lists, useCurrencies, useDepositLimits, useWithdrawalLimits,
                       fetchCurrencies, fetchDepositLimits, fetchWithdrawalLimits
  <2> QED
    BY <2>1 DEF OpenIndexed, Private
<1>3. OpenIndexed(usePaymentMethods) /\ OpenIndexed(useAnnouncements) /\ OpenIndexed(useChatRoom)
  <2>1. /\ usePaymentMethods.scope = "shared" /\ usePaymentMethods.reads = {"methods"}
        /\ Filed(usePaymentMethods, <<"payment-methods">>)
    <3>1. Lists(usePaymentMethods, <<"payment-methods">>, "shared", {"methods"})
      BY QueryLists DEF usePaymentMethods, fetchPaymentMethods
    <3>2. IsPrefix(<<"payment-methods">>, <<"payment-methods">>)
      BY KeyPrefixes
    <3> QED
      BY <3>1, <3>2 DEF Lists, Filed
  <2>2. /\ useAnnouncements.scope = "public" /\ useAnnouncements.reads = {"announcements"}
        /\ Filed(useAnnouncements, <<"announcements">>)
    <3>1. Lists(useAnnouncements, <<"announcements">>, "public", {"announcements"})
      BY QueryLists DEF useAnnouncements, fetchAnnouncements
    <3>2. IsPrefix(<<"announcements">>, <<"announcements">>)
      BY KeyPrefixes
    <3> QED
      BY <3>1, <3>2 DEF Lists, Filed
  <2>3. /\ useChatRoom.scope = "public" /\ useChatRoom.reads = {"chat"}
        /\ Filed(useChatRoom, <<"chat">>)
    <3>1. Lists(useChatRoom, <<"chat">>, "public", {"chat"})
      BY QueryLists DEF useChatRoom, fetchChatRoom
    <3>2. IsPrefix(<<"chat">>, <<"chat">>)
      BY KeyPrefixes
    <3> QED
      BY <3>1, <3>2 DEF Lists, Filed
  <2> QED
    BY <2>1, <2>2, <2>3 DEF OpenIndexed, Private
<1>4. OpenIndexed(useCategories) /\ OpenIndexed(useAllCategories)
  <2>1. /\ useCategories.scope = "public" /\ useCategories.reads = {"categories", "games"}
        /\ Filed(useCategories, <<"categories">>)
    <3>1. Lists(useCategories, <<"categories">>, "public", {"categories", "games"})
      BY QueryLists DEF useCategories, fetchCategories
    <3>2. IsPrefix(<<"categories">>, <<"categories">>)
      BY KeyPrefixes
    <3> QED
      BY <3>1, <3>2 DEF Lists, Filed
  <2>2. useAllCategories.scope = "public" /\ useAllCategories.reads = {"categories"}
    BY QueryLists DEF Lists, useAllCategories, fetchAllCategories
  <2> QED
    BY <2>1, <2>2 DEF OpenIndexed, Private
<1>5. OpenIndexed(useGameSearch) /\ \A filter : OpenIndexed(useGames(filter))
  <2>1. ASSUME NEW q, NEW filter, q = Query(<<"games", filter>>, Reads("public", {"games"}))
        PROVE  OpenIndexed(q)
    <3>1. q.scope = "public" /\ q.reads = {"games"} /\ Filed(q, <<"games">>)
      <4>1. Lists(q, <<"games", filter>>, "public", {"games"})
        BY <2>1, QueryLists
      <4>2. IsPrefix(<<"games">>, <<"games", filter>>)
        BY KeyPrefixes
      <4> QED
        BY <4>1, <4>2 DEF Lists, Filed
    <3> QED
      BY <3>1 DEF OpenIndexed, Private
  <2> QED
    BY <2>1 DEF useGames, useGameSearch, fetchGames
<1>6. OpenIndexed(useGame) /\ OpenIndexed(useGameManifest)
  <2>1. /\ useGame.scope = "public" /\ useGame.reads = {"game"}
        /\ Filed(useGame, <<"game">>)
    <3>1. Lists(useGame, <<"game", "slug">>, "public", {"game"})
      BY QueryLists DEF useGame, fetchGame
    <3>2. IsPrefix(<<"game">>, <<"game", "slug">>)
      BY KeyPrefixes
    <3> QED
      BY <3>1, <3>2 DEF Lists, Filed
  <2>2. useGameManifest.scope = "public" /\ useGameManifest.reads = {"game", "returns"}
    BY QueryLists DEF Lists, useGameManifest, fetchGameManifest
  <2> QED
    BY <2>1, <2>2 DEF OpenIndexed, Private
<1> QED
  BY <1>1, <1>2, <1>3, <1>4, <1>5, <1>6

LEMMA ConsoleQueriesIndexed ==
    /\ \A rows : Indexed(useDepositQueue(rows)) /\ Indexed(useAdminWithdrawals(rows))
    /\ Indexed(useAuditEntries("page")) /\ Indexed(useAuditEntries("top"))
    /\ Indexed(useDashboard) /\ Indexed(useAdminDeposits) /\ Indexed(useAdminUsers) /\ Indexed(useUserCounts)
    /\ Indexed(useAdminUser) /\ Indexed(useAdminUserWallets) /\ Indexed(useUserRounds) /\ Indexed(useUserDeposits)
    /\ Indexed(useUserAdjustments) /\ Indexed(useAdminTransactions) /\ Indexed(useAdminGames)
    /\ Indexed(useAdminGame) /\ Indexed(useAdminRtpConfiguration) /\ Indexed(useAdminRounds)
    /\ Indexed(useAdminPaymentMethods) /\ Indexed(useStaff) /\ Indexed(useConsoleSearch)
    /\ Indexed(useAdminAnnouncements)
<1> DEFINE Rare == {"announcements", "methods", "alerts", "audit"}
<1>1. ASSUME NEW b, NEW c, NEW d, NEW tables, tables \cap Rare = {}
      PROVE  /\ Indexed(Query(<<"admin", b>>, Reads("console", tables)))
             /\ Indexed(Query(<<"admin", b, c>>, Reads("console", tables)))
             /\ Indexed(Query(<<"admin", b, c, d>>, Reads("console", tables)))
  BY <1>1, KeyPrefixes, ConsoleIndexed
<1>2. /\ {"deposits"} \cap Rare = {} /\ {"withdrawals"} \cap Rare = {} /\ {"users"} \cap Rare = {}
      /\ {"wallets"} \cap Rare = {} /\ {"rounds"} \cap Rare = {} /\ {"ledger"} \cap Rare = {} /\ {} \cap Rare = {}
      /\ {"games", "returns", "rounds"} \cap Rare = {} /\ {"game", "returns", "rounds"} \cap Rare = {}
      /\ {"deposits", "rounds"} \cap Rare = {} /\ {"users", "deposits", "rounds"} \cap Rare = {}
  OBVIOUS
<1> HIDE DEF Rare
<1>3. /\ \A rows : Indexed(useDepositQueue(rows)) /\ Indexed(useAdminWithdrawals(rows))
      /\ Indexed(useDashboard) /\ Indexed(useAdminDeposits)
  BY <1>1, <1>2
     DEF useDepositQueue, useAdminWithdrawals, useDashboard, useAdminDeposits,
         fetchDepositQueue, fetchAdminWithdrawals, fetchDashboard, fetchAdminDeposits
<1>4. /\ Indexed(useAdminUsers) /\ Indexed(useUserCounts) /\ Indexed(useAdminUser) /\ Indexed(useAdminUserWallets)
      /\ Indexed(useUserRounds) /\ Indexed(useUserDeposits) /\ Indexed(useUserAdjustments)
  BY <1>1, <1>2
     DEF useAdminUsers, useUserCounts, useAdminUser, useAdminUserWallets, useUserRounds, useUserDeposits,
         useUserAdjustments, fetchUsers, fetchUserCounts, fetchUser, fetchUserWallets, fetchUserRounds,
         fetchUserDeposits, fetchUserAdjustments
<1>5. /\ Indexed(useAdminTransactions) /\ Indexed(useAdminGames) /\ Indexed(useAdminGame)
      /\ Indexed(useAdminRtpConfiguration) /\ Indexed(useAdminRounds) /\ Indexed(useConsoleSearch)
  BY <1>1, <1>2
     DEF useAdminTransactions, useAdminGames, useAdminGame, useAdminRtpConfiguration, useAdminRounds,
         useConsoleSearch, fetchAdminTransactions, fetchAdminGames, fetchAdminGame, fetchAdminRtpConfiguration,
         fetchAdminRounds, fetchConsoleSearch
<1>6. Indexed(useAuditEntries("page")) /\ Indexed(useAuditEntries("top"))
  <2>1. ASSUME NEW rows
        PROVE  /\ useAuditEntries(rows).scope = "console" /\ useAuditEntries(rows).reads = {"audit"}
               /\ Filed(useAuditEntries(rows), <<"admin">>) /\ Filed(useAuditEntries(rows), <<"admin", "audit">>)
    <3>1. Lists(useAuditEntries(rows), <<"admin", "audit", rows>>, "console", {"audit"})
      BY QueryLists DEF useAuditEntries, fetchAuditEntries
    <3>2. /\ IsPrefix(<<"admin">>, <<"admin", "audit", rows>>)
          /\ IsPrefix(<<"admin", "audit">>, <<"admin", "audit", rows>>)
      BY KeyPrefixes
    <3> QED
      BY <3>1, <3>2 DEF Lists, Filed
  <2> QED
    BY <2>1 DEF Indexed
<1>7. Indexed(useAdminPaymentMethods)
  <2>1. /\ useAdminPaymentMethods.scope = "console" /\ useAdminPaymentMethods.reads = {"methods"}
        /\ Filed(useAdminPaymentMethods, <<"admin">>)
        /\ Filed(useAdminPaymentMethods, <<"admin", "payment-methods">>)
    <3>1. Lists(useAdminPaymentMethods, <<"admin", "payment-methods">>, "console", {"methods"})
      BY QueryLists DEF useAdminPaymentMethods, fetchAdminPaymentMethods
    <3>2. /\ IsPrefix(<<"admin">>, <<"admin", "payment-methods">>)
          /\ IsPrefix(<<"admin", "payment-methods">>, <<"admin", "payment-methods">>)
      BY KeyPrefixes
    <3> QED
      BY <3>1, <3>2 DEF Lists, Filed
  <2> QED
    BY <2>1 DEF Indexed
<1>8. Indexed(useStaff)
  <2>1. /\ useStaff.scope = "console" /\ useStaff.reads = {"users", "alerts"}
        /\ Filed(useStaff, <<"admin">>)
        /\ Filed(useStaff, <<"admin", "staff">>)
    <3>1. Lists(useStaff, <<"admin", "staff">>, "console", {"users", "alerts"})
      BY QueryLists DEF useStaff, fetchStaff
    <3>2. IsPrefix(<<"admin">>, <<"admin", "staff">>) /\ IsPrefix(<<"admin", "staff">>, <<"admin", "staff">>)
      BY KeyPrefixes
    <3> QED
      BY <3>1, <3>2 DEF Lists, Filed
  <2> QED
    BY <2>1 DEF Indexed
<1>9. Indexed(useAdminAnnouncements)
  <2>1. /\ useAdminAnnouncements.scope = "console" /\ useAdminAnnouncements.reads = {"announcements"}
        /\ Filed(useAdminAnnouncements, <<"admin">>)
        /\ Filed(useAdminAnnouncements, <<"admin", "announcements">>)
    <3>1. Lists(useAdminAnnouncements, <<"admin", "announcements", "page">>, "console", {"announcements"})
      BY QueryLists DEF useAdminAnnouncements, fetchAdminAnnouncements
    <3>2. /\ IsPrefix(<<"admin">>, <<"admin", "announcements", "page">>)
          /\ IsPrefix(<<"admin", "announcements">>, <<"admin", "announcements", "page">>)
      BY KeyPrefixes
    <3> QED
      BY <3>1, <3>2 DEF Lists, Filed
  <2> QED
    BY <2>1 DEF Indexed
<1> QED
  BY <1>3, <1>4, <1>5, <1>6, <1>7, <1>8, <1>9

AllIndexed(queries) == \A q \in queries : Indexed(q)

LEMMA ShellIndexed == AllIndexed(AppShell) /\ AllIndexed(AdminShell)
<1>1. AllIndexed(AppShell)
  BY OwnIndexed, OpenQueriesIndexed DEF AllIndexed, AppShell, Header, NotificationsPanel, ChatRail
<1>2. AllIndexed(AdminShell)
  BY ConsoleQueriesIndexed DEF AllIndexed, AdminShell, AdminNavPanel
<1> QED
  BY <1>1, <1>2

LEMMA PlayerMounts ==
    /\ AllIndexed(LobbyPage.mounts) /\ AllIndexed(GamesPage.mounts) /\ AllIndexed(FavoritesPage.mounts)
    /\ AllIndexed(GamePage.mounts) /\ AllIndexed(WalletPage.mounts) /\ AllIndexed(DepositPage.mounts)
    /\ AllIndexed(CashOutPage.mounts) /\ AllIndexed(HistoryPage.mounts) /\ AllIndexed(HistoryRounds.mounts)
    /\ AllIndexed(DepositStatusPage.mounts) /\ AllIndexed(WithdrawalStatusPage.mounts)
    /\ AllIndexed(AccountPage.mounts) /\ AllIndexed(ForgotPasswordPage.mounts)
    /\ AllIndexed(ResetPasswordPage.mounts) /\ AllIndexed(AdminLoginPage.mounts)
<1>1. /\ LobbyPage.mounts = {useCategories, useGames("all"), useGames("category"), useRecentlyPlayed}
                            \cup AnnouncementTicker \cup RailSearch
      /\ GamesPage.mounts = {useCategories, useGames("category")} /\ FavoritesPage.mounts = {useFavorites}
      /\ GamePage.mounts = {useGame, useActiveWallet, useFavorites, useGameManifest, useRecentRounds}
  BY DEF LobbyPage, GamesPage, FavoritesPage, GamePage, Page
<1>2. /\ WalletPage.mounts = {useActiveWallet, useWallets, useDeposits("all"), useWithdrawals("all"),
                              useTransactions("recent")}
      /\ DepositPage.mounts = DepositQueries /\ CashOutPage.mounts = CashOutQueries
      /\ HistoryPage.mounts = {useTransactions("filter"), useWalletSummary}
      /\ HistoryRounds.mounts = {useRounds, useWalletSummary}
  BY DEF WalletPage, DepositPage, CashOutPage, HistoryPage, HistoryRounds, Page
<1>3. /\ DepositStatusPage.mounts = {useDeposit} /\ WithdrawalStatusPage.mounts = {useWithdrawal}
      /\ AccountPage.mounts = {useWallets} /\ ForgotPasswordPage.mounts = {}
      /\ ResetPasswordPage.mounts = {} /\ AdminLoginPage.mounts = {}
  BY DEF DepositStatusPage, WithdrawalStatusPage, AccountPage, ForgotPasswordPage, ResetPasswordPage,
         AdminLoginPage, Page
<1>4. /\ AllIndexed(LobbyPage.mounts) /\ AllIndexed(GamesPage.mounts) /\ AllIndexed(FavoritesPage.mounts)
      /\ AllIndexed(GamePage.mounts)
  BY <1>1, OwnIndexed, OpenQueriesIndexed DEF AllIndexed, AnnouncementTicker, RailSearch
<1>5. /\ AllIndexed(WalletPage.mounts) /\ AllIndexed(DepositPage.mounts) /\ AllIndexed(CashOutPage.mounts)
      /\ AllIndexed(HistoryPage.mounts) /\ AllIndexed(HistoryRounds.mounts)
  BY <1>2, OwnIndexed, OpenQueriesIndexed DEF AllIndexed, DepositQueries, CashOutQueries
<1>6. /\ AllIndexed(DepositStatusPage.mounts) /\ AllIndexed(WithdrawalStatusPage.mounts)
      /\ AllIndexed(AccountPage.mounts) /\ AllIndexed(ForgotPasswordPage.mounts)
      /\ AllIndexed(ResetPasswordPage.mounts) /\ AllIndexed(AdminLoginPage.mounts)
  BY <1>3, OwnIndexed DEF AllIndexed
<1> QED
  BY <1>4, <1>5, <1>6

LEMMA ConsoleMounts ==
    /\ AllIndexed(AdminDashboardPage.mounts) /\ AllIndexed(AdminDepositsPage.mounts)
    /\ AllIndexed(AdminWithdrawalsPage.mounts) /\ AllIndexed(AdminUsersPage.mounts)
    /\ AllIndexed(DepositsTab.mounts) /\ AllIndexed(RoundsTab.mounts) /\ AllIndexed(AdjustmentsTab.mounts)
    /\ AllIndexed(AdminTransactionsPage.mounts) /\ AllIndexed(AdminTransactionsRounds.mounts)
    /\ AllIndexed(AdminRoundsPage.mounts) /\ AllIndexed(AdminGamesPage.mounts)
    /\ AllIndexed(AdminGameDetailPage.mounts) /\ AllIndexed(AdminRtpPage.mounts)
    /\ AllIndexed(AdminRtpConfigurationPage.mounts) /\ AllIndexed(AdminAnnouncementsPage.mounts)
    /\ AllIndexed(AdminAuditPage.mounts) /\ AllIndexed(MethodsTab.mounts) /\ AllIndexed(StaffTab.mounts)
    /\ AllIndexed(AdminPromotionsPage.mounts)
<1>1. /\ AdminDashboardPage.mounts = {useCurrencies, useDashboard, useDepositQueue("top"), useAuditEntries("top")}
      /\ AdminDepositsPage.mounts = {useAdminDeposits} /\ AdminWithdrawalsPage.mounts = {useAdminWithdrawals("page")}
      /\ AdminUsersPage.mounts = {useAdminUsers, useUserCounts} \cup AdminConsoleSearch
  BY PageFields DEF AdminDashboardPage, AdminDepositsPage, AdminWithdrawalsPage, AdminUsersPage
<1>2. \A tab : AdminUserDetailPage(tab).mounts = {useAdminUser, useAdminUserWallets, tab}
  BY PageFields DEF AdminUserDetailPage
<1>3. /\ AdminTransactionsPage.mounts = {useAdminTransactions} /\ AdminTransactionsRounds.mounts = {useAdminRounds}
      /\ AdminRoundsPage.mounts = {useAdminRounds} /\ AdminGamesPage.mounts = {useAdminGames} \cup GameLists
      /\ AdminGameDetailPage.mounts = {useAdminGame} \cup GameLists /\ AdminRtpPage.mounts = {useAdminGames}
  BY PageFields DEF AdminTransactionsPage, AdminTransactionsRounds, AdminRoundsPage, AdminGamesPage,
                    AdminGameDetailPage, AdminRtpPage
<1>4. /\ AdminRtpConfigurationPage.mounts = {useAdminGame, useAdminRtpConfiguration}
      /\ AdminAnnouncementsPage.mounts = {useAdminAnnouncements} /\ AdminAuditPage.mounts = {useAuditEntries("page")}
      /\ MethodsTab.mounts = {useAdminPaymentMethods} /\ StaffTab.mounts = {useStaff}
      /\ AdminPromotionsPage.mounts = {}
  BY PageFields DEF AdminRtpConfigurationPage, AdminAnnouncementsPage, AdminAuditPage, MethodsTab, StaffTab,
                    AdminPromotionsPage
<1>5. /\ AllIndexed(AdminDashboardPage.mounts) /\ AllIndexed(AdminDepositsPage.mounts)
      /\ AllIndexed(AdminWithdrawalsPage.mounts) /\ AllIndexed(AdminUsersPage.mounts)
  BY <1>1, OpenQueriesIndexed, ConsoleQueriesIndexed DEF AllIndexed, AdminConsoleSearch
<1>6. AllIndexed(DepositsTab.mounts) /\ AllIndexed(RoundsTab.mounts) /\ AllIndexed(AdjustmentsTab.mounts)
  BY <1>2, ConsoleQueriesIndexed DEF AllIndexed, DepositsTab, RoundsTab, AdjustmentsTab
<1>7. /\ AllIndexed(AdminTransactionsPage.mounts) /\ AllIndexed(AdminTransactionsRounds.mounts)
      /\ AllIndexed(AdminRoundsPage.mounts) /\ AllIndexed(AdminGamesPage.mounts)
      /\ AllIndexed(AdminGameDetailPage.mounts) /\ AllIndexed(AdminRtpPage.mounts)
  BY <1>3, OpenQueriesIndexed, ConsoleQueriesIndexed DEF AllIndexed, GameLists
<1>8. /\ AllIndexed(AdminRtpConfigurationPage.mounts) /\ AllIndexed(AdminAnnouncementsPage.mounts)
      /\ AllIndexed(AdminAuditPage.mounts) /\ AllIndexed(MethodsTab.mounts) /\ AllIndexed(StaffTab.mounts)
      /\ AllIndexed(AdminPromotionsPage.mounts)
  BY <1>4, ConsoleQueriesIndexed DEF AllIndexed
<1> QED
  BY <1>5, <1>6, <1>7, <1>8

LEMMA QueryTable == AllIndexed(Queries)
<1>1. ASSUME NEW p \in Pages PROVE AllIndexed(Route(p).mounts)
  BY PlayerMounts, ConsoleMounts DEF Pages, Route, AppRoutes
<1>2. ASSUME NEW p \in Pages PROVE AllIndexed(Shell(p))
  BY ShellIndexed DEF Shell, AllIndexed
<1> QED
  BY <1>1, <1>2 DEF Queries, AllIndexed

-----------------------------------------------------------------------------
(* What a mutation declares stale covers the queries that show what it writes *)

Declares(op, scope, tables, stales) == op.scope = scope /\ op.writes = tables /\ op.stales = stales

LEMMA HookDeclares ==
    ASSUME NEW name, NEW scope, NEW tables, NEW stales
    PROVE  /\ Declares(OnSuccess(name, Writes(scope, tables), stales), scope, tables, stales)
           /\ Declares(OnSuccess(name, WritesOnce(scope, tables), stales), scope, tables, stales)
           /\ Declares(OnSettled(name, Writes(scope, tables), stales), scope, tables, stales)
           /\ Declares(OnSettled(name, WritesOnce(scope, tables), stales), scope, tables, stales)
BY DEF Declares, OnSuccess, OnSettled, Writes, WritesOnce

Ages(op, q) ==
    \/ q = useGameManifest
    \/ {op.scope, q.scope} = {"own", "console"}
    \/ /\ q \in {useAuditEntries("page"), useAuditEntries("top")}
       /\ op \in {useCreatePaymentMethod, useUpdatePaymentMethod, useSetStaffAlerts}

Covers(op) == \A q : Indexed(q) /\ Concerns(op, q) /\ ~Ages(op, q) => Matches(op.stales, q.key)

LEMMA OtherSide ==
    ASSUME NEW op, NEW q, Indexed(q), ~Ages(op, q)
    PROVE  /\ op.scope = "own" => q.scope \in {"public", "shared", "own"}
           /\ op.scope = "console" => q.scope \in {"public", "shared", "console"}
BY DEF Ages, Indexed, OpenIndexed

LEMMA PlayerCovers ==
    /\ Covers(useSubmitDeposit) /\ Covers(useSubmitWithdrawal) /\ Covers(useCancelWithdrawal)
    /\ Covers(useMarkNotificationsRead) /\ Covers(useSetFavorite) /\ Covers(useSendChatMessage)
<1>1. ASSUME NEW op, NEW tables, NEW stales, Declares(op, "own", tables, stales),
             tables \subseteq {"deposits", "withdrawals", "withdrawal", "wallets", "ledger", "notifications",
                               "favorites", "chat", "audit"},
             "deposits" \in tables => <<"deposits">> \in stales,
             "withdrawals" \in tables \/ "withdrawal" \in tables => <<"withdrawals">> \in stales,
             "wallets" \in tables => <<"wallets">> \in stales,
             "ledger" \in tables => <<"transactions">> \in stales,
             "notifications" \in tables => <<"notifications">> \in stales,
             "favorites" \in tables => <<"favorites">> \in stales,
             "chat" \in tables => <<"chat">> \in stales
      PROVE  Covers(op)
  <2> SUFFICES ASSUME NEW q, Indexed(q), Concerns(op, q), ~Ages(op, q) PROVE Matches(op.stales, q.key)
    BY DEF Covers
  <2>1. PICK table \in tables : table \in q.reads /\ q.scope \in {"public", "shared", "own"}
    BY <1>1, OtherSide DEF Concerns, Declares
  <2>2. CASE q.scope = "own"
    BY <1>1, <2>1, <2>2 DEF Indexed, OpenIndexed, Filed, Matches, Declares
  <2>3. CASE q.scope \in {"public", "shared"}
    BY <1>1, <2>1, <2>3 DEF Indexed, OpenIndexed, Private, Filed, Matches, Declares
  <2> QED
    BY <2>1, <2>2, <2>3
<1>2. Declares(useSubmitDeposit, "own", {"deposits"}, {<<"deposits">>, <<"transactions">>})
  BY HookDeclares DEF useSubmitDeposit, submitDeposit
<1>3. /\ Declares(useSubmitWithdrawal, "own", {"withdrawals", "wallets", "ledger"},
                  {<<"withdrawals">>, <<"wallets">>, <<"transactions">>})
      /\ Declares(useCancelWithdrawal, "own", {"withdrawals", "withdrawal", "wallets", "ledger", "audit"},
                  {<<"withdrawals">>, <<"wallets">>, <<"transactions">>})
  BY HookDeclares
     DEF useSubmitWithdrawal, useCancelWithdrawal, useWithdrawalMutation, submitWithdrawal, cancelWithdrawal
<1>4. /\ Declares(useMarkNotificationsRead, "own", {"notifications"}, {<<"notifications">>})
      /\ Declares(useSetFavorite, "own", {"favorites"}, {<<"favorites">>})
      /\ Declares(useSendChatMessage, "own", {"chat"}, {<<"chat">>})
  BY HookDeclares
     DEF useMarkNotificationsRead, useSetFavorite, useSendChatMessage,
         markNotificationsRead, setFavorite, sendChatMessage
<1>5. Covers(useSubmitDeposit)
  BY <1>1, <1>2
<1>6. Covers(useSubmitWithdrawal) /\ Covers(useCancelWithdrawal)
  BY <1>1, <1>3
<1>7. Covers(useMarkNotificationsRead) /\ Covers(useSetFavorite) /\ Covers(useSendChatMessage)
  BY <1>1, <1>4
<1> QED
  BY <1>5, <1>6, <1>7

LEMMA ConsoleCovers ==
    /\ Covers(useReviewDeposit) /\ Covers(useReviewWithdrawal) /\ Covers(useAdjustWallet)
    /\ Covers(useSetUserStatus) /\ Covers(useCreateGame) /\ Covers(useUpdateGame) /\ Covers(useSetGameRtp)
    /\ Covers(useCreateAnnouncement) /\ Covers(useUpdateAnnouncement) /\ Covers(useSetAnnouncementStatus)
    /\ Covers(useCreatePaymentMethod) /\ Covers(useUpdatePaymentMethod) /\ Covers(useSetStaffAlerts)
<1>1. ASSUME NEW op, NEW tables, NEW stales, Declares(op, "console", tables, stales), <<"admin">> \in stales,
             tables \subseteq Private \cup {"games", "game", "returns"},
             "games" \in tables => {<<"games">>, <<"categories">>} \subseteq stales,
             "game" \in tables => <<"game">> \in stales
      PROVE  Covers(op)
  <2> SUFFICES ASSUME NEW q, Indexed(q), Concerns(op, q), ~Ages(op, q) PROVE Matches(op.stales, q.key)
    BY DEF Covers
  <2>1. PICK table \in tables : table \in q.reads /\ q.scope \in {"public", "shared", "console"}
    BY <1>1, OtherSide DEF Concerns, Declares
  <2>2. CASE q.scope = "console"
    BY <1>1, <2>1, <2>2 DEF Indexed, OpenIndexed, Filed, Matches, Declares
  <2>3. CASE q.scope \in {"public", "shared"}
    <3>1. OpenIndexed(q)
      BY <2>3 DEF Indexed
    <3>2. table \in {"games", "game", "returns"} /\ q # useGameManifest
      BY <1>1, <2>1, <3>1 DEF OpenIndexed, Ages
    <3>3. \E prefix \in stales : Filed(q, prefix)
      BY <1>1, <2>1, <3>1, <3>2 DEF OpenIndexed
    <3> QED
      BY <1>1, <3>3 DEF Filed, Matches, Declares
  <2> QED
    BY <2>1, <2>2, <2>3
<1>2. Covers(useReviewDeposit) /\ Covers(useReviewWithdrawal)
  <2>1. /\ Declares(useReviewDeposit, "console",
                    {"deposits", "deposit", "wallets", "ledger", "notifications", "audit"}, {<<"admin">>})
        /\ Declares(useReviewWithdrawal, "console",
                    {"withdrawals", "withdrawal", "wallets", "ledger", "notifications", "audit"}, {<<"admin">>})
    BY HookDeclares DEF useReviewDeposit, useReviewWithdrawal, reviewDeposit, reviewWithdrawal
  <2> QED
    BY <1>1, <2>1 DEF Private
<1>3. Covers(useAdjustWallet) /\ Covers(useSetUserStatus) /\ Covers(useSetGameRtp)
  <2>1. /\ Declares(useAdjustWallet, "console", {"wallets", "ledger", "audit"}, {<<"admin">>})
        /\ Declares(useSetUserStatus, "console", {"users", "audit"}, {<<"admin">>})
        /\ Declares(useSetGameRtp, "console", {"returns", "audit"}, {<<"admin">>})
    BY HookDeclares DEF useAdjustWallet, useSetUserStatus, useSetGameRtp, adjustWallet, setUserStatus, setGameRtp
  <2> QED
    BY <1>1, <2>1 DEF Private
<1>4. Covers(useCreateGame) /\ Covers(useUpdateGame)
  <2>1. /\ Declares(useCreateGame, "console", {"games", "audit"}, CatalogueKeys)
        /\ Declares(useUpdateGame, "console", {"games", "game", "audit"}, CatalogueKeys)
    BY HookDeclares DEF useCreateGame, useUpdateGame, createGame, updateGame
  <2>2. {<<"admin">>, <<"games">>, <<"game">>, <<"categories">>} \subseteq CatalogueKeys
    BY DEF CatalogueKeys
  <2> QED
    BY <1>1, <2>1, <2>2 DEF Private
<1>5. ASSUME NEW op, Declares(op, "console", {"announcements", "audit"}, AnnouncementKeys)
      PROVE  Covers(op)
  <2> SUFFICES ASSUME NEW q, Indexed(q), Concerns(op, q), ~Ages(op, q) PROVE Matches(op.stales, q.key)
    BY DEF Covers
  <2>1. /\ "announcements" \in q.reads \/ "audit" \in q.reads
        /\ q.scope \in {"public", "shared", "console"}
    BY <1>5, OtherSide DEF Concerns, Declares
  <2>2. Filed(q, <<"announcements">>) \/ Filed(q, <<"admin", "announcements">>) \/ Filed(q, <<"admin", "audit">>)
    BY <2>1 DEF Indexed, OpenIndexed, Private
  <2> QED
    BY <1>5, <2>2 DEF AnnouncementKeys, Filed, Matches, Declares
<1>6. Covers(useCreateAnnouncement) /\ Covers(useUpdateAnnouncement) /\ Covers(useSetAnnouncementStatus)
  <2>1. /\ Declares(useCreateAnnouncement, "console", {"announcements", "audit"}, AnnouncementKeys)
        /\ Declares(useUpdateAnnouncement, "console", {"announcements", "audit"}, AnnouncementKeys)
        /\ Declares(useSetAnnouncementStatus, "console", {"announcements", "audit"}, AnnouncementKeys)
    BY HookDeclares DEF useCreateAnnouncement, useUpdateAnnouncement, useSetAnnouncementStatus,
                        createAnnouncement, updateAnnouncement, setAnnouncementStatus
  <2> QED
    BY <1>5, <2>1
<1>7. ASSUME NEW op \in {useCreatePaymentMethod, useUpdatePaymentMethod},
             Declares(op, "console", {"methods", "audit"}, MethodKeys)
      PROVE  Covers(op)
  <2> SUFFICES ASSUME NEW q, Indexed(q), Concerns(op, q), ~Ages(op, q) PROVE Matches(op.stales, q.key)
    BY DEF Covers
  <2>1. /\ "methods" \in q.reads \/ "audit" \in q.reads
        /\ q.scope \in {"public", "shared", "console"}
    BY <1>7, OtherSide DEF Concerns, Declares
  <2>2. q \notin {useAuditEntries("page"), useAuditEntries("top")}
    BY DEF Ages
  <2>3. Filed(q, <<"payment-methods">>) \/ Filed(q, <<"admin", "payment-methods">>)
    BY <2>1, <2>2 DEF Indexed, OpenIndexed, Private
  <2> QED
    BY <1>7, <2>3 DEF MethodKeys, Filed, Matches, Declares
<1>8. Covers(useCreatePaymentMethod) /\ Covers(useUpdatePaymentMethod)
  <2>1. /\ Declares(useCreatePaymentMethod, "console", {"methods", "audit"}, MethodKeys)
        /\ Declares(useUpdatePaymentMethod, "console", {"methods", "audit"}, MethodKeys)
    BY HookDeclares DEF useCreatePaymentMethod, useUpdatePaymentMethod, createPaymentMethod, updatePaymentMethod
  <2> QED
    BY <1>7, <2>1
<1>9. Covers(useSetStaffAlerts)
  <2> SUFFICES ASSUME NEW q, Indexed(q), Concerns(useSetStaffAlerts, q), ~Ages(useSetStaffAlerts, q)
               PROVE  Matches(useSetStaffAlerts.stales, q.key)
    BY DEF Covers
  <2>1. Declares(useSetStaffAlerts, "console", {"alerts", "audit"}, {<<"admin", "staff">>})
    BY HookDeclares DEF useSetStaffAlerts, setStaffAlerts
  <2>2. /\ "alerts" \in q.reads \/ "audit" \in q.reads
        /\ q.scope \in {"public", "shared", "console"}
    BY <2>1, OtherSide DEF Concerns, Declares
  <2>3. q \notin {useAuditEntries("page"), useAuditEntries("top")}
    BY DEF Ages
  <2>4. Filed(q, <<"admin", "staff">>)
    BY <2>2, <2>3 DEF Indexed, OpenIndexed, Private
  <2> QED
    BY <2>1, <2>4 DEF Filed, Matches, Declares
<1> QED
  BY <1>2, <1>3, <1>4, <1>6, <1>8, <1>9

\* Every mutation hook declares stale every query that shows what it writes, but for the
\* three kinds that are left to age.
LEMMA StalesCover ==
    ASSUME NEW op \in Mutations, NEW q \in Queries, Concerns(op, q), ~Ages(op, q)
    PROVE  Matches(op.stales, q.key)
<1>1. op \in MutationHooks
  BY FormTable DEF Mutations, AllForms, Offered
<1>2. Covers(op)
  BY <1>1, PlayerCovers, ConsoleCovers DEF MutationHooks
<1>3. Indexed(q)
  BY QueryTable DEF AllIndexed
<1> QED
  BY <1>2, <1>3 DEF Covers

-----------------------------------------------------------------------------
(* The inductive invariant: types *)

Outside == {"forgot", "reset"}
Tabs == Pages \ Outside
Stages == {"idle", "sent", "refused", "committed", "adrift", "over"}
Entries == [rows : RowsOf, stale : BOOLEAN, fetch : Fetches, got : RowsOf, cutOff : BOOLEAN]
FormsOf == [first : Nat, key : Nat, busy : 0 .. MaxCalls, misled : BOOLEAN]
CallsOf == [1 .. MaxCalls -> [at : Stages, key : Nat, who : Identities, seen : 0 .. MaxCalls]]
Sessions == [shown : Identities, fetch : Fetches \ {"refused"}, got : Identities,
             failed : BOOLEAN, expired : BOOLEAN, leaving : {Stay, "lobby", "adminLogin"}]
Pasts == [told : 0 .. MaxCalls, left : Pages \cup {""}, ended : BOOLEAN, raced : BOOLEAN]

\* The calls that may still be carried out.
Pending(cs) == {c \in DOMAIN cs : cs[c].at \in {"idle", "sent", "adrift"}}

\* What the tab is about, where it is and who it is for.
TabTyped ==
    /\ task \in Tasks /\ query \in Queries /\ Concerns(task, query) /\ pages \subseteq Tabs
    /\ page \in Tabs /\ intent \in {Closed, Open} \cup PlayerPages
    /\ me \in Sessions /\ cookie \in Identities /\ entry \in Entries
    /\ past \in Pasts /\ spent \in 0 .. MaxEvents

\* What it has sent, and what the server has done with it.
CallsTyped ==
    /\ form \in FormsOf /\ calls \in CallsOf
    /\ server \in [writes : 0 .. MaxCalls, keys : SUBSET Nat]
    /\ form.first <= form.key /\ server.keys \subseteq 0 .. form.key
    /\ \A c \in DOMAIN calls : calls[c].key \in 0 .. form.key
    /\ server.writes + Cardinality(Pending(calls)) <= MaxCalls

\* A form that waits is on screen, and what it waits for is its own.
FormWaits ==
    form.busy # 0 => /\ Awaited(form.busy) /\ calls[form.busy].key = form.key
                     /\ \E f \in Forms(page) : f.op = task

Typed == TabTyped /\ CallsTyped /\ FormWaits

-----------------------------------------------------------------------------
(* The inductive invariants of the properties *)

\* A tab that shows someone, or is about to, while the cookie is nobody's, and a session that
\* is nobody's about to be shown, are of a session that has ended.
OverForAReason ==
    \/ past.ended \/ past.raced
    \/ /\ cookie = Guest => me.shown = Guest
       /\ me.fetch = "read" /\ cookie = Guest => me.got = Guest
       /\ me.fetch = "read" /\ me.got = Guest => me.shown = Guest
       /\ ~me.expired
RefusedToNobody == entry.fetch = "refused" => cookie = Guest
Expiring == OverForAReason /\ RefusedToNobody

\* What has been fetched of a query that asks whose it is, is one user's.
Whose(e, X) ==
    /\ ~e.cutOff
    /\ e.rows # NoRows => e.rows.who = X
    /\ e.fetch = "read" => e.got.who = X
OneUser ==
    query.scope \in {"own", "console"} /\ ~past.raced =>
        \E X \in Identities : /\ Whose(entry, X) /\ cookie \in {X, Guest} /\ me.shown \in {X, Guest}
                              /\ me.fetch = "read" => me.got \in {X, Guest}

\* The keys that a form has given up name no request.
GivenUp == form.first .. form.key - 1
OneKey ==
    task.keyed =>
        /\ \A c \in DOMAIN calls : Awaited(c) /\ calls[c].key >= form.first => c = form.busy
        /\ ~form.misled => /\ GivenUp \cap server.keys = {}
                           /\ \A c \in DOMAIN calls :
                                calls[c].at \in {"sent", "adrift"} => calls[c].key \notin GivenUp

\* What passes for fresh, in the cache or about to be, is no older than what the tab was told.
Sees(e, told) ==
    /\ e.rows # NoRows /\ ~e.stale /\ ~e.cutOff /\ ~e.rows.behind => e.rows.seen >= told
    /\ e.fetch = "read" /\ ~e.got.behind => e.got.seen >= told
ToldIsDone ==
    past.told <= server.writes /\ \A c \in DOMAIN calls : calls[c].seen <= server.writes
CutOffIsIdle == entry.cutOff => entry.fetch = "none"
Shows == CutOffIsIdle /\ ToldIsDone /\ (~LeftToAge => Sees(entry, past.told))

-----------------------------------------------------------------------------
(* Moving about *)

LEMMA IgnorePublic == \A p : \A q \in IgnoreSession(p) : q.scope = "public"
<1>1. /\ useChatRoom.scope = "public" /\ useAnnouncements.scope = "public" /\ useGameSearch.scope = "public"
      /\ useCategories.scope = "public" /\ \A filter : useGames(filter).scope = "public"
  BY QueryLists
     DEF Lists, useChatRoom, useAnnouncements, useGameSearch, useCategories, useGames, fetchChatRoom,
         fetchAnnouncements, fetchGames, fetchCategories
<1>2. GamesPage.mounts = {useCategories, useGames("category")}
  BY DEF GamesPage, Page
<1> QED
  BY <1>1, <1>2 DEF IgnoreSession, ChatRail, AnnouncementTicker, RailSearch

LEMMA GateTurnsAway ==
    ASSUME NEW p \in Tabs, NEW who
    PROVE  Gated(p, who) \in {p, "lobby", "adminLogin", "dashboard"} /\ Gated(p, who) \in Tabs
<1>1. Route(p).gate \in Gates
  BY RouteTable DEF Decent, Tabs
<1>2. Gated(p, who) \in {p, "lobby", "adminLogin", "dashboard"}
  <2>1. CASE Passes(p, who)
    BY <2>1 DEF Gated
  <2>2. CASE ~Passes(p, who)
    <3>1. CASE Route(p).gate = "anyone"
      BY <2>2, <3>1 DEF Passes
    <3>2. CASE Route(p).gate = "signed in"
      BY <2>2, <3>2 DEF Gated
    <3>3. CASE Route(p).gate = "operator"
      BY <2>2, <3>3 DEF Gated
    <3>4. CASE Route(p).gate = "no operator"
      BY <2>2, <3>4 DEF Gated
    <3> QED
      BY <1>1, <3>1, <3>2, <3>3, <3>4 DEF Gates
  <2> QED
    BY <2>1, <2>2
<1>3. {"lobby", "adminLogin", "dashboard"} \subseteq Tabs
  BY KnownRoutes DEF Tabs, Outside
<1> QED
  BY <1>2, <1>3

LEMMA IntentStays ==
    ASSUME NEW p \in Pages, NEW who, intent \in {Closed, Open} \cup PlayerPages
    PROVE  IntentAt(p, who) \in {Closed, Open} \cup PlayerPages
BY Sections DEF IntentAt

LEMMA ShellFormsStay ==
    /\ \A f \in ShellForms : f.op.name \notin Leading
    /\ \A p \in PlayerPages : ShellForms \subseteq Forms(p)
<1>1. \A f \in ShellForms : f.op \in {useMarkNotificationsRead, useSendChatMessage}
  BY PlayerForms DEF Offer
<1> QED
  BY <1>1, KeepingNames, KeepingHooks DEF Forms

\* The form a task is sent with: where it leads, and that it leads away from where it is.
LEMMA TaskLeads ==
    ASSUME task \in Mutations
    PROVE  /\ FormOf(task).leads = Stay \/ (task.name \in Leading /\ FormOf(task).leads \in LeadsTo)
           /\ task.name \in Leading =>
                \A p \in Pages : (\E f \in Forms(p) : f.op = task) => p \in LeadsFrom
<1> PICK op : op = task
  OBVIOUS
<1>1. \E f \in AllForms : f.op = op
  BY DEF Mutations
<1>2. FormOf(op) \in AllForms /\ FormOf(op).op = op
  BY <1>1 DEF FormOf
<1>3. PICK p \in Pages : FormOf(op) \in Forms(p)
  BY <1>2 DEF AllForms
<1>4. FormOf(op).leads = Stay \/ (op.name \in Leading /\ FormOf(op).leads \in LeadsTo)
  BY <1>2, <1>3, FormTable DEF Offered
<1>5. op.name \in Leading => \A r \in Pages : (\E f \in Forms(r) : f.op = op) => r \in LeadsFrom
  BY FormTable DEF Offered
<1> QED
  BY <1>4, <1>5

-----------------------------------------------------------------------------
(* The query's entry *)

\* What becomes of an entry that is asked for again, or declared stale.
Kept(e, f) ==
    /\ f \in Entries
    /\ \/ f.rows = NoRows /\ ~f.cutOff
       \/ f.rows = e.rows /\ f.cutOff = e.cutOff /\ (e.stale => f.stale)
    /\ f.fetch \in {"asked", e.fetch}
    /\ f.cutOff => f.fetch = e.fetch
    /\ f.fetch = "read" => /\ f.got.who = e.got.who /\ f.got.seen = e.got.seen
                           /\ e.got.behind => f.got.behind

\* Nothing of it passes for fresh.
Flagged(e) == (e.rows = NoRows \/ e.stale \/ e.cutOff) /\ (e.fetch = "read" => e.got.behind)

LEMMA EmptyEntries == NoRows \in RowsOf /\ Absent \in Entries /\ Kept(Absent, Absent)
BY ClientAssumption DEF NoRows, RowsOf, Absent, Entries, Fetches, Identities, Kept

LEMMA KeptSame == ASSUME NEW e \in Entries PROVE Kept(e, e)
BY DEF Kept

LEMMA KeptTwice == ASSUME NEW e, NEW f, NEW g, Kept(e, f), Kept(f, g) PROVE Kept(e, g)
BY DEF Kept

LEMMA RefetchKeeps == ASSUME NEW e \in Entries PROVE Kept(e, Refetch(e))
BY EmptyEntries DEF Refetch, Kept, Entries, Fetches, Absent

LEMMA RenderedKeeps ==
    ASSUME NEW e \in Entries, NEW to, NEW who, NEW old
    PROVE  Kept(e, Mount(e, old)) /\ Kept(e, Rendered(e, to, who, old))
BY RefetchKeeps, KeptSame DEF Mount, Rendered

LEMMA InvalidateKeeps ==
    ASSUME NEW e \in Entries, NEW stales
    PROVE  /\ Kept(e, Invalidate(e, stales))
           /\ Matches(stales, query.key) /\ (e.cutOff => e.fetch = "none") => Flagged(Invalidate(e, stales))
<1>1. CASE ~Matches(stales, query.key) \/ e.cutOff \/ e = Absent
  <2>1. Invalidate(e, stales) = e
    BY <1>1 DEF Invalidate
  <2> QED
    BY <1>1, <2>1, KeptSame DEF Flagged, Absent
<1>2. CASE ~(~Matches(stales, query.key) \/ e.cutOff \/ e = Absent)
  <2>1. CASE Displayed /\ (e.rows # NoRows \/ e.fetch = "none")
    <3>1. Invalidate(e, stales) = [e EXCEPT !.stale = TRUE, !.fetch = "asked", !.got = NoRows]
      BY <1>2, <2>1 DEF Invalidate
    <3> QED
      BY <1>2, <3>1, EmptyEntries DEF Kept, Flagged, Entries, Fetches
  <2>2. CASE ~(Displayed /\ (e.rows # NoRows \/ e.fetch = "none"))
    <3> DEFINE late == e.fetch = "read"
               got == [e.got EXCEPT !.behind = late]
               f == [e EXCEPT !.stale = TRUE, !.got = got]
    <3>1. Invalidate(e, stales) = f
      BY <1>2, <2>2 DEF Invalidate
    <3>2. late \in BOOLEAN /\ e.got \in RowsOf
      BY DEF Entries
    <3> HIDE DEF late
    <3>3. got \in RowsOf /\ got.who = e.got.who /\ got.seen = e.got.seen /\ got.behind = late
      BY <3>2 DEF RowsOf
    <3> HIDE DEF got
    <3>4. /\ f \in Entries /\ f.rows = e.rows /\ f.cutOff = e.cutOff /\ f.stale = TRUE
          /\ f.fetch = e.fetch /\ f.got = got
      BY <3>3 DEF Entries
    <3> HIDE DEF f
    <3>5. e.fetch = "read" => got.behind
      BY <3>3 DEF late
    <3> QED
      BY <3>1, <3>3, <3>4, <3>5 DEF Kept, Flagged
  <2> QED
    BY <2>1, <2>2
<1> QED
  BY <1>1, <1>2

LEMMA KeptFlagged == ASSUME NEW e, NEW f, Kept(e, f), Flagged(e) PROVE Flagged(f)
BY DEF Kept, Flagged

LEMMA KeptSees ==
    ASSUME NEW e, NEW f, NEW told, Kept(e, f), Sees(e, told)
    PROVE  Sees(f, told)
BY DEF Kept, Sees

LEMMA FlaggedSees == ASSUME NEW e, NEW told, Flagged(e) PROVE Sees(e, told)
BY DEF Flagged, Sees

LEMMA KeptWhose == ASSUME NEW e, NEW f, NEW X, Kept(e, f), Whose(e, X) PROVE Whose(f, X)
BY DEF Kept, Whose

\* A new identity starts from nothing, but for a view that asks nobody who they are.
LEMMA DropsAll ==
    ASSUME entry \in Entries, NEW to, NEW who, NEW navigates
    PROVE  LET e == dropGuestQueries(to, who, navigates) IN
           /\ e \in Entries /\ e.fetch \in {"none", "asked"} /\ (e.cutOff => e.fetch = "none")
           /\ e.rows = NoRows \/ e.cutOff
           /\ query.scope # "public" => e.rows = NoRows /\ ~e.cutOff
<1>1. CASE ~navigates /\ query \in IgnoreSession(page) /\ Displayed
  <2>1. dropGuestQueries(to, who, navigates) = [Absent EXCEPT !.rows = entry.rows, !.cutOff = TRUE]
    BY <1>1 DEF dropGuestQueries
  <2>2. query.scope = "public"
    BY <1>1, IgnorePublic
  <2> QED
    BY <2>1, <2>2, EmptyEntries DEF Entries, Absent
<1>2. CASE ~(~navigates /\ query \in IgnoreSession(page) /\ Displayed)
  <2>1. dropGuestQueries(to, who, navigates) \in {Absent, Refetch(Absent)}
    BY <1>2 DEF dropGuestQueries
  <2>2. Refetch(Absent) = [Absent EXCEPT !.fetch = "asked"]
    BY DEF Refetch, Absent
  <2> QED
    BY <2>1, <2>2, EmptyEntries DEF Entries, Absent, Fetches
<1> QED
  BY <1>1, <1>2

-----------------------------------------------------------------------------
(* Types hold: the tab *)

\* A form is left as it is, or anew; one that waits is still on screen.
Moved ==
    \/ form' = NewForm
    \/ form' = form /\ (form.busy # 0 => \E f \in Forms(page') : f.op = task)

LEMMA FormFollows ==
    ASSUME Typed, NEW to \in Tabs, page' = to, form' = FormAt(to)
    PROVE  Moved
<1>1. CASE to = page
  BY <1>1 DEF Typed, FormWaits, FormAt, Moved
<1>2. CASE {to, page} \subseteq PlayerPages /\ \E f \in ShellForms : f.op = task
  BY <1>2, ShellFormsStay DEF FormAt, Moved
<1>3. CASE ~(to = page \/ ({to, page} \subseteq PlayerPages /\ \E f \in ShellForms : f.op = task))
  BY <1>3 DEF FormAt, Moved
<1> QED
  BY <1>1, <1>2, <1>3

LEMMA Arrives ==
    ASSUME Typed, NEW to \in Tabs, NEW who, NEW e \in Entries, NEW old, Goto(to, who, e, old)
    PROVE  /\ page' \in Tabs /\ page' \in {to, "lobby", "adminLogin", "dashboard"}
           /\ intent' \in {Closed, Open} \cup PlayerPages
           /\ Kept(e, entry') /\ entry' \in Entries /\ Moved
<1> PICK at : at = Gated(to, who)
  OBVIOUS
<1>1. at \in Tabs /\ at \in {to, "lobby", "adminLogin", "dashboard"}
  BY GateTurnsAway
<1>2. page' = at /\ intent' = IntentAt(to, who) /\ form' = FormAt(at) /\ entry' = Rendered(e, at, who, old)
  BY DEF Goto
<1>3. intent' \in {Closed, Open} \cup PlayerPages
  BY <1>2, IntentStays DEF Typed, TabTyped, Tabs
<1>4. Kept(e, entry')
  BY <1>2, RenderedKeeps
<1>5. Moved
  BY <1>1, <1>2, FormFollows
<1> QED
  BY <1>1, <1>2, <1>3, <1>4, <1>5 DEF Kept

LEMMA ShownTyped ==
    ASSUME Typed, NEW who \in Identities, NEW session \in Sessions, NEW e \in Entries,
           Shown(who, session, e), UNCHANGED <<task, query, pages, cookie, spent>>
    PROVE  TabTyped' /\ Moved /\ Kept(e, entry')
<1>1. page \in Tabs
  BY DEF Typed, TabTyped
<1>2. PICK old \in {FALSE, me.failed} : Goto(page, who, e, old)
  BY DEF Shown
<1>3. /\ page' \in Tabs /\ intent' \in {Closed, Open} \cup PlayerPages
      /\ Kept(e, entry') /\ entry' \in Entries /\ Moved
  BY <1>1, <1>2, Arrives
<1>4. me' \in Sessions
  BY DEF Shown, Sessions
<1>5. past' \in Pasts
  BY <1>1 DEF Shown, Pasts, Tabs, Typed, TabTyped
<1> QED
  BY <1>3, <1>4, <1>5 DEF Typed, TabTyped

LEMMA FormTyped ==
    ASSUME Typed, Moved, UNCHANGED <<task, calls, server>>
    PROVE  CallsTyped' /\ FormWaits'
<1>1. CASE form' = NewForm
  <2>1. NextKey \in Nat /\ NextKey >= form.key
    BY DEF NextKey, Typed, CallsTyped, FormsOf
  <2>2. form'.first = NextKey /\ form'.key = NextKey /\ form'.busy = 0 /\ form' \in FormsOf
    BY <1>1, <2>1, ClientAssumption DEF NewForm, FormsOf
  <2>3. CallsTyped'
    <3>1. server'.keys \subseteq 0 .. form'.key /\ \A c \in DOMAIN calls' : calls'[c].key \in 0 .. form'.key
      BY <2>1, <2>2 DEF Typed, CallsTyped, FormsOf
    <3> QED
      BY <2>1, <2>2, <3>1 DEF Typed, CallsTyped
  <2> QED
    BY <2>2, <2>3 DEF FormWaits
<1>2. CASE form' = form /\ (form.busy # 0 => \E f \in Forms(page') : f.op = task)
  BY <1>2 DEF Typed, CallsTyped, FormWaits, Awaited
<1> QED
  BY <1>1, <1>2 DEF Moved

LEMMA QuietlyTyped ==
    ASSUME Typed, UNCHANGED <<task, query, pages, page, intent, cookie, form, calls, server>>,
           me' \in Sessions, entry' \in Entries, past' \in Pasts, spent' \in 0 .. MaxEvents
    PROVE  Typed'
<1>1. Moved
  BY DEF Typed, FormWaits, Moved
<1>2. TabTyped'
  BY DEF Typed, TabTyped
<1> QED
  BY <1>1, <1>2, FormTyped DEF Typed

LEMMA SpendTyped == ASSUME Typed, Spend PROVE spent' \in 0 .. MaxEvents
BY ClientAssumption DEF Typed, TabTyped, Spend

LEMMA ReadRows ==
    ASSUME NEW who \in Identities, NEW seen \in 0 .. MaxCalls
    PROVE  LET rows == [NoRows EXCEPT !.who = who, !.seen = seen] IN
           rows \in RowsOf /\ rows.who = who /\ rows.seen = seen /\ ~rows.behind /\ rows # NoRows
<1> DEFINE rows == [NoRows EXCEPT !.who = who, !.seen = seen]
<1>1. seen \in -1 .. MaxCalls /\ seen # -1
  BY ClientAssumption
<1>2. NoRows \in RowsOf /\ NoRows.seen = -1 /\ ~NoRows.behind
  BY EmptyEntries DEF NoRows
<1>3. rows \in RowsOf /\ rows.who = who /\ rows.seen = seen /\ ~rows.behind
  BY <1>1, <1>2 DEF RowsOf
<1> QED
  BY <1>1, <1>2, <1>3

LEMMA QueryTyped == ASSUME Typed, QueryNext PROVE Typed'
<1> USE DEF TabTyped
<1>1. /\ entry \in Entries /\ me \in Sessions /\ past \in Pasts /\ spent \in 0 .. MaxEvents
      /\ server.writes \in 0 .. MaxCalls /\ cookie \in Identities
  BY DEF Typed, CallsTyped
<1>2. CASE QueryReads
  <2>1. entry' \in Entries
    <3>1. [NoRows EXCEPT !.who = cookie, !.seen = server.writes] \in RowsOf
      BY <1>1, ReadRows
    <3> QED
      BY <1>1, <1>2, <3>1 DEF QueryReads, Entries, Fetches
  <2> QED
    BY <1>1, <1>2, <2>1, QuietlyTyped DEF QueryReads
<1>3. CASE QueryLands
  <2>1. entry' \in Entries
    BY <1>1, <1>3, EmptyEntries DEF QueryLands, Entries, Fetches
  <2> QED
    BY <1>1, <1>3, <2>1, QuietlyTyped DEF QueryLands
<1>4. CASE QueryFails
  <2>1. entry' \in Entries
    BY <1>1, <1>4 DEF QueryFails, Entries, Fetches
  <2> QED
    BY <1>1, <1>4, <2>1, QuietlyTyped DEF QueryFails
<1>5. CASE QueryRefused
  <2>1. [entry EXCEPT !.fetch = "none"] \in Entries /\ Guest \in Identities
    BY <1>1 DEF Entries, Fetches, Identities
  <2>2. TabTyped' /\ Moved
    BY <1>1, <1>5, <2>1, ShownTyped DEF QueryRefused
  <2> QED
    BY <1>5, <2>2, FormTyped DEF QueryRefused, Typed
<1>6. CASE Poll
  <2>1. entry' \in Entries
    BY <1>1, <1>6, RefetchKeeps DEF Poll, Kept
  <2> QED
    BY <1>1, <1>6, <2>1, SpendTyped, QuietlyTyped DEF Poll
<1>7. CASE SocketEvent
  <2>1. entry' \in Entries
    <3>1. \A stales : Invalidate(entry, stales) \in Entries
      BY <1>1, InvalidateKeeps DEF Kept
    <3>2. Mount(entry, FALSE) \in Entries
      BY <1>1, RenderedKeeps DEF Kept
    <3> QED
      BY <1>7, <3>1, <3>2 DEF SocketEvent
  <2> QED
    BY <1>1, <1>7, <2>1, SpendTyped, QuietlyTyped DEF SocketEvent
<1> QED
  BY <1>2, <1>3, <1>4, <1>5, <1>6, <1>7 DEF QueryNext

LEMMA Begins == ASSUME Typed PROVE NewPast \in Pasts
<1>1. ASSUME NEW raced \in BOOLEAN
      PROVE  [told |-> 0, left |-> "", ended |-> FALSE, raced |-> raced] \in Pasts
  <2>1. 0 \in 0 .. MaxCalls
    BY ClientAssumption
  <2> QED
    BY <2>1 DEF Pasts
<1>2. (past.raced \/ me.fetch # "none") \in BOOLEAN
  OBVIOUS
<1> QED
  BY Zenon, <1>1, <1>2 DEF NewPast

LEMMA SignInTyped == ASSUME Typed, NEW who \in Users, SignIn(who) PROVE Typed'
<1> DEFINE leads == IF page \in PlayerPages THEN intent ELSE Route(page).signsIn
           to == IF leads = Open THEN page ELSE Gated(leads, who)
<1>1. page \in Tabs /\ intent \in {Closed, Open} \cup PlayerPages /\ entry \in Entries /\ me \in Sessions
  BY DEF Typed, TabTyped
<1>2. leads \in {Open} \cup PlayerPages \cup {"lobby", "dashboard"}
  <2>1. CASE page \in PlayerPages
    BY <1>1, <2>1 DEF SignIn
  <2>2. CASE page \notin PlayerPages
    BY <1>1, <2>2, RouteTable DEF SignIn, Decent, Tabs
  <2> QED
    BY <2>1, <2>2
<1>3. to \in Tabs
  <2>1. PlayerPages \cup {"lobby", "dashboard"} \subseteq Tabs
    BY Sections, KnownRoutes DEF Tabs, Outside
  <2> QED
    BY <1>1, <1>2, <2>1, GateTurnsAway
<1>4. page' = to /\ form' = FormAt(to) /\ entry' = dropGuestQueries(to, who, leads # Open)
  BY DEF SignIn
<1> HIDE DEF leads, to
<1>5. Moved
  BY <1>3, <1>4, FormFollows
<1>6. entry' \in Entries
  BY <1>1, <1>4, DropsAll
<1>7. me' \in Sessions /\ cookie' \in Identities
  BY <1>1 DEF SignIn, Sessions, Identities
<1>8. /\ past' \in Pasts /\ spent' \in 0 .. MaxEvents /\ intent' = Closed
      /\ UNCHANGED <<task, query, pages, calls, server>>
  BY Begins, SpendTyped DEF SignIn
<1>9. TabTyped'
  BY <1>3, <1>4, <1>6, <1>7, <1>8 DEF Typed, TabTyped
<1> QED
  BY <1>5, <1>8, <1>9, FormTyped DEF Typed

LEMMA SignedOutTyped == ASSUME Typed, SignedOut PROVE Typed'
<1> DEFINE to == Gated(me.leaving, Guest)
<1>1. page \in Tabs /\ entry \in Entries /\ me \in Sessions /\ intent \in {Closed, Open} \cup PlayerPages
  BY DEF Typed, TabTyped
<1>2. me.leaving \in {"lobby", "adminLogin"}
  BY <1>1 DEF SignedOut, Sessions
<1>3. to \in Tabs
  <2>1. {"lobby", "adminLogin"} \subseteq Tabs
    BY KnownRoutes DEF Tabs, Outside
  <2> QED
    BY <1>2, <2>1, GateTurnsAway
<1>4. page' = to /\ form' = FormAt(to) /\ entry' = dropGuestQueries(to, Guest, TRUE)
  BY DEF SignedOut
<1> HIDE DEF to
<1>5. Moved
  BY <1>3, <1>4, FormFollows
<1>6. entry' \in Entries
  BY <1>1, <1>4, DropsAll
<1>7. me' \in Sessions
  BY <1>1 DEF SignedOut, Sessions, Identities
<1>8. intent' \in {Closed, Open} \cup PlayerPages
  BY <1>1, IntentStays DEF SignedOut, Tabs
<1>9. past' \in Pasts /\ UNCHANGED <<task, query, pages, cookie, calls, server, spent>>
  BY Begins DEF SignedOut
<1>10. TabTyped'
  BY <1>3, <1>4, <1>6, <1>7, <1>8, <1>9 DEF Typed, TabTyped
<1> QED
  BY <1>5, <1>9, <1>10, FormTyped DEF Typed

LEMMA SignInAgainTyped == ASSUME Typed, SignInAgain PROVE Typed' /\ Kept(entry, entry')
<1> DEFINE console == page \in ConsolePages \cup {"adminLogin"}
           to == Gated(IF console THEN "adminLogin" ELSE "lobby", me.shown)
<1>1. page \in Tabs /\ entry \in Entries /\ me \in Sessions /\ intent \in {Closed, Open} \cup PlayerPages
  BY DEF Typed, TabTyped
<1>2. to \in Tabs
  <2>1. {"lobby", "adminLogin"} \subseteq Tabs
    BY KnownRoutes DEF Tabs, Outside
  <2> QED
    BY <2>1, GateTurnsAway
<1>3. /\ page' = to /\ form' = FormAt(to) /\ entry' = Rendered(entry, to, me.shown, FALSE)
      /\ intent' = IF console THEN intent ELSE page
  BY DEF SignInAgain
<1>4. intent' \in {Closed, Open} \cup PlayerPages
  BY <1>1, <1>3, Sections DEF Tabs, Outside
<1> HIDE DEF to, console
<1>5. Moved
  BY <1>2, <1>3, FormFollows
<1>6. Kept(entry, entry') /\ entry' \in Entries
  <2>1. Kept(entry, Rendered(entry, to, me.shown, FALSE))
    BY ONLY <1>1, RenderedKeeps
  <2> QED
    BY <1>3, <2>1 DEF Kept
<1>7. me' \in Sessions
  BY <1>1 DEF SignInAgain, Sessions
<1>8. TabTyped'
  BY <1>2, <1>3, <1>4, <1>6, <1>7 DEF Typed, TabTyped, SignInAgain
<1> QED
  BY <1>5, <1>6, <1>8, FormTyped DEF Typed, SignInAgain

LEMMA MeLandsTyped == ASSUME Typed, MeLands PROVE Typed' /\ Kept(entry, entry')
<1> DEFINE session == [me EXCEPT !.fetch = "none", !.got = Guest]
<1>1. me \in Sessions /\ entry \in Entries
  BY DEF Typed, TabTyped
<1>2. me.got \in Identities /\ session \in Sessions
  BY <1>1 DEF Sessions, Fetches, Identities
<1>3. Shown(me.got, session, entry) /\ UNCHANGED <<task, query, pages, cookie, calls, server, spent>>
  BY DEF MeLands
<1>4. TabTyped' /\ Moved /\ Kept(entry, entry')
  BY <1>1, <1>2, <1>3, ShownTyped
<1> QED
  BY <1>3, <1>4, FormTyped DEF Typed

LEMMA SessionTyped == ASSUME Typed, SessionNext PROVE Typed'
<1>1. /\ entry \in Entries /\ me \in Sessions /\ past \in Pasts /\ spent \in 0 .. MaxEvents
      /\ cookie \in Identities /\ page \in Tabs
  BY DEF Typed, TabTyped
<1>2. CASE MeReads
  BY <1>1, <1>2, QuietlyTyped DEF MeReads, Sessions, Fetches
<1>3. CASE MeFails
  <2>1. /\ UNCHANGED <<task, query, pages, page, intent, cookie, entry, calls, server, past, spent>>
        /\ me' \in Sessions /\ form' \in {form, NewForm}
    BY <1>1, <1>3 DEF MeFails, Sessions, Fetches
  <2>2. TabTyped' /\ Moved
    BY <2>1 DEF Typed, TabTyped, FormWaits, Moved
  <2> QED
    BY <2>1, <2>2, FormTyped DEF Typed
<1>4. CASE SignOutLost
  BY <1>1, <1>4, QuietlyTyped DEF SignOutLost, Sessions
<1>5. CASE SessionEnds
  <2>1. past' \in Pasts /\ cookie' \in Identities /\ spent' \in 0 .. MaxEvents
    BY <1>1, <1>5, SpendTyped DEF SessionEnds, Pasts, Identities
  <2>2. UNCHANGED <<task, query, pages, page, intent, me, entry, form, calls, server>>
    BY <1>5 DEF SessionEnds
  <2>3. TabTyped' /\ Moved
    BY <2>1, <2>2 DEF Typed, TabTyped, FormWaits, Moved
  <2> QED
    BY <2>2, <2>3, FormTyped DEF Typed
<1>6. CASE SignOut
  <2>1. Route(page).signsOut \in {Stay, "lobby", "adminLogin"}
    BY <1>1, RouteTable DEF Decent, Tabs
  <2>2. past' \in Pasts /\ cookie' \in Identities /\ spent' \in 0 .. MaxEvents
    BY <1>1, <1>6, SpendTyped DEF SignOut, Pasts, Identities
  <2>3. me' \in Sessions
    BY <1>1, <1>6, <2>1 DEF SignOut, Sessions
  <2>4. UNCHANGED <<task, query, pages, page, intent, entry, form, calls, server>>
    BY <1>6 DEF SignOut
  <2>5. TabTyped' /\ Moved
    BY <2>2, <2>3, <2>4 DEF Typed, TabTyped, FormWaits, Moved
  <2> QED
    BY <2>4, <2>5, FormTyped DEF Typed
<1>7. CASE AskToSignIn
  <2>1. UNCHANGED <<task, query, pages, page, me, cookie, entry, form, calls, server, past, spent>> /\ intent' = Open
    BY <1>7 DEF AskToSignIn
  <2>2. TabTyped' /\ Moved
    BY <2>1 DEF Typed, TabTyped, FormWaits, Moved
  <2> QED
    BY <2>1, <2>2, FormTyped DEF Typed
<1>8. CASE KeepBrowsing
  <2>1. /\ UNCHANGED <<task, query, pages, page, cookie, entry, form, calls, server, spent>>
        /\ intent' = Closed /\ me' \in Sessions /\ past' \in Pasts
    BY <1>1, <1>8 DEF KeepBrowsing, Sessions, Pasts
  <2>2. TabTyped' /\ Moved
    BY <2>1 DEF Typed, TabTyped, FormWaits, Moved
  <2> QED
    BY <2>1, <2>2, FormTyped DEF Typed
<1>9. CASE TryAgain
  BY <1>1, <1>9, QuietlyTyped DEF TryAgain, Sessions, Fetches
<1> QED
  BY <1>2, <1>3, <1>4, <1>5, <1>6, <1>7, <1>8, <1>9, MeLandsTyped, SignedOutTyped, SignInAgainTyped, SignInTyped
     DEF SessionNext

LEMMA OpenPageTyped ==
    ASSUME Typed, NEW p \in pages, OpenPage(p)
    PROVE  Typed' /\ Kept(entry, entry') /\ me'.got = me.got /\ me'.shown = me.shown
           /\ me'.expired = me.expired /\ me'.fetch \in {"asked", me.fetch}
<1>1. p \in Tabs /\ entry \in Entries /\ me \in Sessions /\ past \in Pasts
  BY DEF Typed, TabTyped
<1>2. PICK old \in BOOLEAN : /\ Goto(p, me.shown, entry, old)
                             /\ me' = IF old /\ me.fetch = "none" THEN [me EXCEPT !.fetch = "asked"] ELSE me
  BY DEF OpenPage
<1>3. /\ page' \in Tabs /\ intent' \in {Closed, Open} \cup PlayerPages
      /\ Kept(entry, entry') /\ entry' \in Entries /\ Moved
  BY <1>1, <1>2, Arrives
<1>4. /\ me' \in Sessions /\ me'.got = me.got /\ me'.shown = me.shown /\ me'.expired = me.expired
      /\ me'.fetch \in {"asked", me.fetch}
  BY <1>1, <1>2 DEF Sessions, Fetches
<1>5. past' \in Pasts /\ spent' \in 0 .. MaxEvents /\ UNCHANGED <<task, query, pages, cookie, calls, server>>
  BY <1>1, SpendTyped DEF OpenPage, Pasts
<1>6. TabTyped'
  BY <1>3, <1>4, <1>5 DEF Typed, TabTyped
<1> QED
  BY <1>3, <1>4, <1>5, <1>6, FormTyped DEF Typed

-----------------------------------------------------------------------------
(* Types hold: the task *)

LEMMA MaxOfTwo ==
    ASSUME NEW a \in Nat, NEW b \in Nat
    PROVE  Max({a, b}) \in {a, b} /\ Max({a, b}) >= a /\ Max({a, b}) >= b
<1>1. \E x \in {a, b} : \A y \in {a, b} : x >= y
  OBVIOUS
<1>2. Max({a, b}) \in {a, b} /\ \A y \in {a, b} : Max({a, b}) >= y
  BY <1>1 DEF Max
<1> QED
  BY <1>2

LEMMA PendingCounts ==
    ASSUME NEW cs \in CallsOf, NEW ds \in CallsOf, Pending(ds) \subseteq Pending(cs)
    PROVE  /\ Cardinality(Pending(cs)) \in Nat /\ Cardinality(Pending(ds)) <= Cardinality(Pending(cs))
           /\ Cardinality(Pending(ds)) \in Nat
           /\ \A c \in Pending(cs) : c \notin Pending(ds) => Cardinality(Pending(ds)) + 1 <= Cardinality(Pending(cs))
<1>1. IsFiniteSet(1 .. MaxCalls)
  BY ClientAssumption, FS_Interval
<1>2. Pending(cs) \subseteq 1 .. MaxCalls
  BY DEF Pending, CallsOf
<1>3. IsFiniteSet(Pending(cs)) /\ IsFiniteSet(Pending(ds))
  BY <1>1, <1>2, FS_Subset
<1>4. Cardinality(Pending(cs)) \in Nat /\ Cardinality(Pending(ds)) \in Nat
  BY <1>3, FS_CardinalityType
<1>5. Cardinality(Pending(ds)) <= Cardinality(Pending(cs))
  BY <1>3, FS_Subset
<1>6. ASSUME NEW c \in Pending(cs), c \notin Pending(ds)
      PROVE  Cardinality(Pending(ds)) + 1 <= Cardinality(Pending(cs))
  <2>1. Pending(ds) \subseteq Pending(cs) \ {c}
    BY <1>6
  <2>2. /\ IsFiniteSet(Pending(cs) \ {c})
        /\ Cardinality(Pending(cs) \ {c}) = Cardinality(Pending(cs)) - 1
    BY <1>3, <1>6, FS_RemoveElement
  <2>3. Cardinality(Pending(ds)) <= Cardinality(Pending(cs) \ {c})
    BY <2>1, <2>2, FS_Subset
  <2> QED
    BY <1>4, <2>2, <2>3
<1> QED
  BY <1>4, <1>5, <1>6

\* What a call comes to, with the rest as they were.
Advances(c) ==
    /\ c \in 1 .. MaxCalls /\ calls' \in CallsOf
    /\ \A b \in 1 .. MaxCalls \ {c} : calls'[b] = calls[b]

LEMMA Unwritten ==
    ASSUME Typed, NEW c, Advances(c), server' = server, calls'[c].at \in {"sent", "adrift"} => c \in Pending(calls),
           calls'[c].at # "idle"
    PROVE  server'.writes + Cardinality(Pending(calls')) <= MaxCalls
<1>1. calls \in CallsOf /\ calls' \in CallsOf
  BY DEF Typed, CallsTyped, Advances
<1>2. Pending(calls') \subseteq Pending(calls)
  BY <1>1 DEF Pending, Advances, CallsOf
<1>3. /\ Cardinality(Pending(calls)) \in Nat /\ Cardinality(Pending(calls')) \in Nat
      /\ Cardinality(Pending(calls')) <= Cardinality(Pending(calls))
  BY ONLY <1>1, <1>2, PendingCounts
<1> QED
  BY <1>3, ClientAssumption DEF Typed, CallsTyped

LEMMA ToldTyped ==
    ASSUME Typed, NEW c \in 1 .. MaxCalls
    PROVE  /\ Told(c) \in 0 .. MaxCalls /\ Told(c) \in {past.told, calls[c].seen}
           /\ [past EXCEPT !.told = Told(c)] \in Pasts
<1>1. past.told \in 0 .. MaxCalls /\ calls[c].seen \in 0 .. MaxCalls
  BY DEF Typed, TabTyped, CallsTyped, Pasts, CallsOf
<1>2. PICK a \in 0 .. MaxCalls, b \in 0 .. MaxCalls : a = past.told /\ b = calls[c].seen
  BY <1>1
<1>3. Max({a, b}) \in {a, b}
  BY ClientAssumption, MaxOfTwo
<1>4. Told(c) \in {past.told, calls[c].seen}
  BY <1>2, <1>3 DEF Told
<1> QED
  BY <1>1, <1>4 DEF Typed, TabTyped, Pasts

LEMMA SubmitTyped == ASSUME Typed, NEW c \in 1 .. MaxCalls, Submit(c) PROVE Typed'
<1>1. /\ calls \in CallsOf /\ form \in FormsOf /\ cookie \in Identities /\ form.first <= form.key
      /\ spent \in 0 .. MaxEvents
  BY DEF Typed, TabTyped, CallsTyped
<1> PICK stage \in Stages : stage = IF cookie = Guest THEN "refused" ELSE "sent"
  BY DEF Stages
<1> DEFINE call == [at |-> stage, key |-> form.key, who |-> cookie, seen |-> 0]
<1>2. call \in [at : Stages, key : Nat, who : Identities, seen : 0 .. MaxCalls]
  BY <1>1, ClientAssumption DEF FormsOf
<1>3. calls' = [calls EXCEPT ![c] = call] /\ stage \in {"refused", "sent"}
  BY DEF Submit
<1>4. call.at = stage /\ call.key = form.key /\ call.seen = 0
  OBVIOUS
<1> HIDE DEF call
<1>5. Advances(c) /\ calls'[c] = call
  BY <1>1, <1>2, <1>3 DEF Advances, CallsOf
<1>6. c \in Pending(calls)
  BY <1>1 DEF Submit, Pending, CallsOf
<1>7. UNCHANGED <<task, query, pages, page, intent, me, cookie, entry, server, past>>
  BY DEF Submit
<1>8. server'.writes + Cardinality(Pending(calls')) <= MaxCalls
  BY <1>3, <1>4, <1>5, <1>6, <1>7, Unwritten
<1>9. form' \in FormsOf /\ form'.key = form.key /\ form'.first = form.first /\ form'.busy = c
  BY <1>1 DEF Submit, FormsOf
<1>10. spent' \in 0 .. MaxEvents
  BY <1>1, SpendTyped DEF Submit
<1>11. \E f \in Forms(page) : f.op = task
  BY DEF Submit
<1>12. TabTyped'
  BY <1>7, <1>10 DEF Typed, TabTyped
<1>13. \A b \in DOMAIN calls' : calls'[b].key \in 0 .. form'.key
  BY <1>1, <1>4, <1>5, <1>9 DEF Typed, CallsTyped, CallsOf, FormsOf, Advances
<1>14. CallsTyped'
  BY <1>5, <1>7, <1>8, <1>9, <1>13 DEF Typed, CallsTyped, Advances
<1>15. FormWaits'
  BY <1>3, <1>4, <1>5, <1>7, <1>9, <1>11 DEF FormWaits, Awaited
<1> QED
  BY <1>12, <1>14, <1>15 DEF Typed

LEMMA CommitTyped == ASSUME Typed, NEW c \in 1 .. MaxCalls, Commit(c) PROVE Typed'
<1>1. calls \in CallsOf /\ form \in FormsOf /\ server \in [writes : 0 .. MaxCalls, keys : SUBSET Nat]
  BY DEF Typed, CallsTyped
<1> DEFINE writes == IF Recorded(calls[c].key) THEN server.writes ELSE server.writes + 1
           stage == IF calls[c].at = "sent" THEN "committed" ELSE "over"
<1>2. /\ server' = [writes |-> writes, keys |-> server.keys \cup {calls[c].key}]
      /\ calls' = [calls EXCEPT ![c].at = stage, ![c].seen = writes]
      /\ UNCHANGED <<task, query, pages, page, intent, me, cookie, entry, form, past, spent>>
  <2>1. server' = [writes |-> writes, keys |-> server.keys \cup {calls[c].key}]
    BY Zenon DEF Commit
  <2>2. calls' = [calls EXCEPT ![c].at = stage, ![c].seen = writes]
    BY Zenon DEF Commit
  <2>3. UNCHANGED <<task, query, pages, page, intent, me, cookie, entry, form, past, spent>>
    BY DEF Commit
  <2> QED
    BY <2>1, <2>2, <2>3
<1>a. stage \in Stages
  BY DEF Stages
<1>3. c \in Pending(calls)
  BY <1>1 DEF Commit, Pending, CallsOf
<1>4. DOMAIN calls = 1 .. MaxCalls /\ calls[c] \in [at : Stages, key : Nat, who : Identities, seen : 0 .. MaxCalls]
  BY <1>1 DEF CallsOf
<1>5. Cardinality(Pending(calls)) >= 1 /\ Cardinality(Pending(calls)) \in Nat
  <2>1. IsFiniteSet(1 .. MaxCalls)
    BY ClientAssumption, FS_Interval
  <2>2. IsFiniteSet(Pending(calls)) /\ Pending(calls) # {}
    BY <1>3, <1>4, <2>1, FS_Subset DEF Pending
  <2> QED
    BY <2>2, FS_CardinalityType, FS_EmptySet
<1>6. writes \in 0 .. MaxCalls /\ writes <= server.writes + 1 /\ server.writes <= writes
  BY <1>1, <1>5, ClientAssumption DEF Typed, CallsTyped
<1>b. calls[c].at = "sent" => stage = "committed"
  OBVIOUS
<1>c. stage \in {"committed", "over"}
  OBVIOUS
<1> HIDE DEF stage, writes
<1>7. /\ calls'[c].at = stage /\ calls'[c].key = calls[c].key /\ calls'[c].seen = writes
      /\ calls'[c] \in [at : Stages, key : Nat, who : Identities, seen : 0 .. MaxCalls]
  BY <1>2, <1>4, <1>6, <1>a
<1>8. Advances(c)
  BY <1>1, <1>2, <1>7 DEF Advances, CallsOf
<1>9. Pending(calls') \subseteq Pending(calls) /\ c \notin Pending(calls')
  BY <1>1, <1>c, <1>7, <1>8 DEF Pending, Advances, CallsOf
<1>10. /\ Cardinality(Pending(calls')) \in Nat
       /\ Cardinality(Pending(calls')) + 1 <= Cardinality(Pending(calls))
  <2>1. calls' \in CallsOf
    BY <1>8 DEF Advances
  <2> QED
    BY ONLY <1>1, <1>3, <1>9, <2>1, PendingCounts
<1>11. server'.writes + Cardinality(Pending(calls')) <= MaxCalls
  BY <1>1, <1>2, <1>5, <1>6, <1>10, ClientAssumption DEF Typed, CallsTyped
<1>12. server' \in [writes : 0 .. MaxCalls, keys : SUBSET Nat] /\ server'.keys \subseteq 0 .. form.key
  BY <1>1, <1>2, <1>4, <1>6 DEF Typed, CallsTyped
<1>13. \A b \in DOMAIN calls' : calls'[b].key \in 0 .. form'.key
  BY <1>1, <1>2, <1>7, <1>8 DEF Typed, CallsTyped, CallsOf, Advances
<1>14. CallsTyped'
  BY <1>2, <1>8, <1>11, <1>12, <1>13 DEF Typed, CallsTyped, Advances
<1>15. TabTyped'
  BY <1>2 DEF Typed, TabTyped
<1>16. FormWaits'
  <2>1. CASE form.busy = c
    <3>1. calls[c].at = "sent" \/ form.busy = 0
      BY <2>1 DEF Typed, FormWaits, Awaited, Commit
    <3> QED
      BY <1>b, <1>2, <1>7, <2>1, <3>1 DEF Typed, FormWaits, Awaited
  <2>2. CASE form.busy # c
    <3>1. form.busy # 0 => calls'[form.busy] = calls[form.busy]
      BY <1>1, <1>8, <2>2 DEF Advances, FormsOf
    <3> QED
      BY <1>2, <3>1 DEF Typed, FormWaits, Awaited
  <2> QED
    BY <2>1, <2>2
<1> QED
  BY <1>14, <1>15, <1>16 DEF Typed

\* The call is over, or adrift if it may still be carried out.
Resolves(c, stage) ==
    /\ Awaited(c) /\ stage \in {"adrift", "over"} /\ (stage = "adrift" => calls[c].at = "sent")
    /\ calls' = [calls EXCEPT ![c].at = stage]

LEMMA ResolvedCall ==
    ASSUME Typed, NEW c \in 1 .. MaxCalls, NEW stage, Resolves(c, stage)
    PROVE  /\ calls'[c].at = stage /\ calls'[c].key = calls[c].key /\ calls'[c].seen = calls[c].seen
           /\ Advances(c) /\ DOMAIN calls' = DOMAIN calls /\ DOMAIN calls = 1 .. MaxCalls
<1>1. /\ calls \in CallsOf /\ DOMAIN calls = 1 .. MaxCalls
      /\ calls[c] \in [at : Stages, key : Nat, who : Identities, seen : 0 .. MaxCalls]
  BY DEF Typed, CallsTyped, CallsOf
<1>2. stage \in Stages
  BY DEF Resolves, Stages
<1>3. calls' = [calls EXCEPT ![c].at = stage]
  BY DEF Resolves
<1>4. /\ calls'[c].at = stage /\ calls'[c].key = calls[c].key /\ calls'[c].seen = calls[c].seen
      /\ calls'[c] \in [at : Stages, key : Nat, who : Identities, seen : 0 .. MaxCalls]
  BY <1>1, <1>2, <1>3
<1> QED
  BY <1>1, <1>3, <1>4 DEF Advances, CallsOf

LEMMA AnsweredTyped ==
    ASSUME Typed, NEW c \in 1 .. MaxCalls, NEW stage, Resolves(c, stage), UNCHANGED <<task, server>>,
           form' \in FormsOf, form'.first <= form'.key, form.key <= form'.key,
           form'.busy # 0 => /\ form'.busy = form.busy /\ form.busy # c /\ form'.key = form.key
                             /\ \E f \in Forms(page') : f.op = task
    PROVE  CallsTyped' /\ FormWaits'
<1>1. /\ calls'[c].at = stage /\ calls'[c].key = calls[c].key /\ calls'[c].seen = calls[c].seen
      /\ Advances(c) /\ DOMAIN calls' = DOMAIN calls /\ DOMAIN calls = 1 .. MaxCalls
  BY ResolvedCall
<1>2. calls \in CallsOf /\ form \in FormsOf
  BY DEF Typed, CallsTyped
<1>3. stage # "idle" /\ (stage \in {"sent", "adrift"} => c \in Pending(calls))
  BY <1>1, <1>2 DEF Resolves, Pending
<1>4. server'.writes + Cardinality(Pending(calls')) <= MaxCalls
  BY <1>1, <1>3, Unwritten
<1>5. \A b \in DOMAIN calls' : calls'[b].key \in 0 .. form'.key
  BY <1>1, <1>2 DEF Typed, CallsTyped, CallsOf, FormsOf, Advances
<1>6. server'.keys \subseteq 0 .. form'.key /\ server' \in [writes : 0 .. MaxCalls, keys : SUBSET Nat]
  BY <1>2 DEF Typed, CallsTyped, FormsOf
<1>7. CallsTyped'
  BY <1>1, <1>4, <1>5, <1>6 DEF CallsTyped, Advances
<1>8. form'.busy # 0 => calls'[form'.busy] = calls[form.busy]
  BY <1>1, <1>2 DEF Advances, FormsOf
<1>9. FormWaits'
  BY <1>8 DEF Typed, FormWaits, Awaited
<1> QED
  BY <1>7, <1>9

LEMMA NewFormTyped == ASSUME Typed PROVE /\ NewForm \in FormsOf /\ NewForm.busy = 0 /\ ~NewForm.misled
                                          /\ NewForm.first = NextKey /\ NewForm.key = NextKey
                                          /\ NextKey \in Nat /\ form.key <= NextKey
                                          /\ (task.keyed => form.key < NextKey)
<1>1. NextKey \in Nat /\ form.key <= NextKey /\ (task.keyed => form.key < NextKey)
  BY DEF NextKey, Typed, CallsTyped, FormsOf
<1>2. 0 \in 0 .. MaxCalls
  BY ClientAssumption
<1> QED
  BY <1>1, <1>2 DEF NewForm, FormsOf

LEMMA AnswerOkTyped ==
    ASSUME Typed, NEW c \in 1 .. MaxCalls, AnswerOk(c)
    PROVE  /\ Typed' /\ Resolves(c, "over") /\ Kept(Invalidate(entry, task.stales), entry')
           /\ form' = NewForm \/ form' = form
           /\ UNCHANGED <<task, query, pages, me, cookie, server, spent>>
           /\ past' = [past EXCEPT !.told = Told(c)]
<1> PICK stale : stale = Invalidate(entry, task.stales)
  OBVIOUS
<1> PICK leads : leads = FormOf(task).leads
  OBVIOUS
<1>1. /\ UNCHANGED <<task, query, pages, me, cookie, server, spent>>
      /\ past' = [past EXCEPT !.told = Told(c)] /\ Resolves(c, "over")
      /\ IF leads # Stay /\ ~me.failed THEN Goto(leads, me.shown, stale, FALSE)
         ELSE /\ page' = IF leads = Stay THEN page ELSE leads
              /\ entry' = stale
              /\ form' = IF form.busy = c THEN NewForm ELSE FormAt(page')
              /\ UNCHANGED intent
  BY DEF AnswerOk, Resolves, Awaited
<1>2. /\ page \in Tabs /\ entry \in Entries /\ me \in Sessions /\ intent \in {Closed, Open} \cup PlayerPages
      /\ form \in FormsOf /\ form.first <= form.key /\ task \in Mutations
  BY ClientAssumption DEF Typed, TabTyped, CallsTyped
<1>3. Kept(entry, stale) /\ stale \in Entries
  BY <1>2, InvalidateKeeps DEF Kept
<1>4. past' \in Pasts
  BY <1>1, ToldTyped
<1>5. /\ leads = Stay \/ (task.name \in Leading /\ leads \in LeadsTo)
      /\ task.name \in Leading => \A p \in Pages : (\E f \in Forms(p) : f.op = task) => p \in LeadsFrom
  BY <1>2, TaskLeads
<1>6. /\ page' \in Tabs /\ intent' \in {Closed, Open} \cup PlayerPages /\ Kept(stale, entry') /\ entry' \in Entries
      /\ form' = NewForm \/ form' = form
      /\ form'.busy # 0 => /\ form' = form /\ form.busy # c /\ \E f \in Forms(page') : f.op = task
  <2>1. CASE leads = Stay
    <3>1. entry' = stale /\ UNCHANGED <<page, intent>> /\ form' = IF form.busy = c THEN NewForm ELSE form
      BY <1>1, <2>1 DEF FormAt
    <3>2. Kept(stale, stale)
      BY <1>3, KeptSame
    <3> QED
      BY <1>2, <1>3, <3>1, <3>2, NewFormTyped DEF Typed, FormWaits
  <2>2. ASSUME leads # Stay PROVE leads \in Tabs /\ \A p \in Tabs :
                 p \in {leads, "lobby", "adminLogin", "dashboard"} => ~\E f \in Forms(p) : f.op = task
    <3>1. leads \in Tabs
      BY <1>5, <2>2, KnownRoutes DEF Tabs, Outside, LeadsTo
    <3>2. {leads, "lobby", "adminLogin", "dashboard"} \cap LeadsFrom = {}
      BY <1>5, <2>2 DEF LeadsTo, LeadsFrom
    <3> QED
      BY <1>5, <2>2, <3>1, <3>2 DEF Tabs
  <2>3. CASE leads # Stay /\ ~me.failed
    <3>1. Goto(leads, me.shown, stale, FALSE)
      BY <1>1, <2>3
    <3>2. leads \in Tabs
      BY <2>2, <2>3
    <3>3. /\ page' \in Tabs /\ page' \in {leads, "lobby", "adminLogin", "dashboard"}
          /\ intent' \in {Closed, Open} \cup PlayerPages /\ Kept(stale, entry') /\ entry' \in Entries /\ Moved
      BY ONLY Typed, <1>3, <3>1, <3>2, Arrives
    <3>4. ~\E f \in Forms(page') : f.op = task
      BY <2>2, <2>3, <3>3
    <3> QED
      BY <3>3, <3>4, NewFormTyped DEF Moved
  <2>4. CASE leads # Stay /\ me.failed
    <3>1. /\ page' = leads /\ entry' = stale /\ intent' = intent
          /\ form' = NewForm \/ form' = FormAt(leads)
      BY <1>1, <2>4
    <3>2. leads \in Tabs /\ ~\E f \in Forms(page') : f.op = task
      BY <2>2, <2>4, <3>1
    <3>3. Kept(stale, entry') /\ Moved
      BY <1>3, <3>1, <3>2, KeptSame, FormFollows DEF Moved
    <3> QED
      BY <1>2, <1>3, <3>1, <3>2, <3>3, NewFormTyped DEF Moved
  <2> QED
    BY <2>1, <2>3, <2>4
<1>7. form' \in FormsOf /\ form'.first <= form'.key /\ form.key <= form'.key
  BY <1>2, <1>6, NewFormTyped DEF FormsOf
<1>8. CallsTyped' /\ FormWaits'
  <2>1. form'.busy # 0 => /\ form'.busy = form.busy /\ form.busy # c /\ form'.key = form.key
                          /\ \E f \in Forms(page') : f.op = task
    BY <1>6
  <2> QED
    BY <1>1, <1>7, <2>1, AnsweredTyped
<1>9. TabTyped'
  BY <1>1, <1>2, <1>4, <1>6 DEF Typed, TabTyped
<1> QED
  BY <1>1, <1>6, <1>8, <1>9 DEF Typed

LEMMA RenewedForm ==
    ASSUME Typed, NEW named \in BOOLEAN
    PROVE  /\ RenewKey(form, named) \in FormsOf /\ RenewKey(form, named).busy = 0
           /\ RenewKey(form, named).first = form.first /\ RenewKey(form, named).key = NextKey
           /\ RenewKey(form, named).misled = (task.keyed /\ (form.misled \/ named))
<1> DEFINE misled == task.keyed /\ (form.misled \/ named)
<1>1. misled \in BOOLEAN /\ form \in FormsOf /\ 0 \in 0 .. MaxCalls /\ NextKey \in Nat
  BY ClientAssumption, NewFormTyped DEF Typed, CallsTyped
<1>2. RenewKey(form, named) = [form EXCEPT !.busy = 0, !.key = NextKey, !.misled = misled]
  BY DEF RenewKey
<1> HIDE DEF misled
<1>3. RenewKey(form, named).misled = misled
  BY <1>1, <1>2 DEF FormsOf
<1>4. /\ RenewKey(form, named) \in FormsOf /\ RenewKey(form, named).busy = 0
      /\ RenewKey(form, named).first = form.first /\ RenewKey(form, named).key = NextKey
  BY <1>1, <1>2 DEF FormsOf
<1> QED
  BY <1>3, <1>4 DEF misled

LEMMA SettledTyped ==
    ASSUME Typed, NEW c \in 1 .. MaxCalls, Settled(c)
    PROVE  /\ entry' \in Entries /\ past' \in Pasts /\ Kept(entry, entry')
           /\ \/ UNCHANGED <<entry, past>>
              \/ entry' = Invalidate(entry, task.stales) /\ past' = [past EXCEPT !.told = Told(c)]
<1>1. entry \in Entries /\ past \in Pasts
  BY DEF Typed, TabTyped
<1>2. CASE task.settled
  <2>1. Kept(entry, Invalidate(entry, task.stales)) /\ Invalidate(entry, task.stales) \in Entries
    BY <1>1, InvalidateKeeps DEF Kept
  <2>2. entry' = Invalidate(entry, task.stales) /\ past' = [past EXCEPT !.told = Told(c)]
    BY <1>2 DEF Settled
  <2> QED
    BY <2>1, <2>2, ToldTyped
<1>3. CASE ~task.settled
  BY <1>1, <1>3, KeptSame DEF Settled
<1> QED
  BY <1>2, <1>3

\* What is left of the form once its call has been answered, or lost.
LEMMA FailureTyped ==
    ASSUME Typed, NEW c \in 1 .. MaxCalls, NEW stage, Resolves(c, stage), Settled(c),
           NEW after \in FormsOf, after.busy = 0, after.first = form.first, form.key <= after.key,
           form' = IF form.busy = c THEN after ELSE form,
           UNCHANGED <<task, query, pages, page, intent, me, cookie, server, spent>>
    PROVE  Typed'
<1>1. entry' \in Entries /\ past' \in Pasts
  BY SettledTyped
<1>2. TabTyped'
  BY <1>1 DEF Typed, TabTyped
<1>3. form \in FormsOf /\ form.first <= form.key
  BY DEF Typed, CallsTyped
<1>4. form' \in FormsOf /\ form'.first <= form'.key /\ form.key <= form'.key
  BY <1>3 DEF FormsOf
<1>5. form'.busy # 0 => /\ form'.busy = form.busy /\ form.busy # c /\ form'.key = form.key
                        /\ \E f \in Forms(page') : f.op = task
  BY DEF Typed, FormWaits
<1> QED
  BY <1>2, <1>4, <1>5, AnsweredTyped DEF Typed

LEMMA AnswerErrorTyped ==
    ASSUME Typed, NEW c \in 1 .. MaxCalls, AnswerError(c)
    PROVE  /\ Typed' /\ Settled(c) /\ UNCHANGED <<task, query, pages, page, intent, me, cookie, server, spent>>
           /\ \E adrift \in {FALSE, calls[c].at = "sent"} :
                /\ Resolves(c, IF adrift THEN "adrift" ELSE "over")
                /\ form' = IF form.busy = c THEN RenewKey(form, adrift \/ MayName(form.key, c)) ELSE form
<1>1. PICK adrift \in {FALSE, calls[c].at = "sent"} :
        /\ calls' = [calls EXCEPT ![c].at = IF adrift THEN "adrift" ELSE "over"]
        /\ form' = IF form.busy = c THEN RenewKey(form, adrift \/ MayName(form.key, c)) ELSE form
  BY DEF AnswerError
<1>2. /\ Settled(c) /\ UNCHANGED <<task, query, pages, page, intent, me, cookie, server, spent>>
      /\ Awaited(c)
  BY DEF AnswerError
<1>3. Resolves(c, IF adrift THEN "adrift" ELSE "over")
  BY <1>1, <1>2 DEF Resolves
<1>4. (adrift \/ MayName(form.key, c)) \in BOOLEAN
  OBVIOUS
<1>5. PICK named \in BOOLEAN : named = (adrift \/ MayName(form.key, c))
  BY <1>4
<1>6. /\ RenewKey(form, named) \in FormsOf /\ RenewKey(form, named).busy = 0
      /\ RenewKey(form, named).first = form.first /\ form.key <= RenewKey(form, named).key
  BY RenewedForm, NewFormTyped
<1>7. form' = IF form.busy = c THEN RenewKey(form, named) ELSE form
  BY <1>1, <1>5
<1>8. Typed'
  BY <1>2, <1>3, <1>6, <1>7, FailureTyped
<1> QED
  BY <1>1, <1>2, <1>3, <1>8

LEMMA AnswerLostTyped ==
    ASSUME Typed, NEW c \in 1 .. MaxCalls, AnswerLost(c)
    PROVE  /\ Typed' /\ Settled(c) /\ UNCHANGED <<task, query, pages, page, intent, me, cookie, server, spent>>
           /\ Resolves(c, IF calls[c].at = "sent" THEN "adrift" ELSE "over")
           /\ form' = IF form.busy = c THEN AfterLoss(form) ELSE form
<1>1. /\ Settled(c) /\ UNCHANGED <<task, query, pages, page, intent, me, cookie, server, spent>>
      /\ Resolves(c, IF calls[c].at = "sent" THEN "adrift" ELSE "over")
      /\ form' = IF form.busy = c THEN AfterLoss(form) ELSE form
  BY DEF AnswerLost, Resolves
<1>2. form \in FormsOf /\ 0 \in 0 .. MaxCalls
  BY ClientAssumption DEF Typed, CallsTyped
<1>3. /\ AfterLoss(form) \in FormsOf /\ AfterLoss(form).busy = 0 /\ AfterLoss(form).first = form.first
      /\ form.key <= AfterLoss(form).key
  BY <1>2 DEF AfterLoss, FormsOf
<1>4. Typed'
  BY <1>1, <1>3, FailureTyped
<1> QED
  BY <1>1, <1>4

LEMMA InitTyped == ASSUME Init PROVE Typed
<1>1. PICK who \in Users \cup {Guest}, loaded \in BOOLEAN :
        /\ page \in {p \in pages : Passes(p, who)}
        /\ cookie = who
        /\ me = [shown |-> who, fetch |-> "none", got |-> Guest, failed |-> FALSE,
                 expired |-> FALSE, leaving |-> Stay]
        /\ entry = IF ~OnScreen(page, who) THEN Absent
                   ELSE IF loaded THEN [Absent EXCEPT !.rows = [NoRows EXCEPT !.who = who, !.seen = 0]]
                   ELSE Refetch(Absent)
  BY DEF Init
<1>2. /\ task \in Tasks /\ query \in Queries /\ Concerns(task, query) /\ intent = Closed
      /\ form = [first |-> 1, key |-> 1, busy |-> 0, misled |-> FALSE]
      /\ calls = [c \in 1 .. MaxCalls |-> Idle]
      /\ server = [writes |-> 0, keys |-> {}]
      /\ past = [told |-> 0, left |-> "", ended |-> FALSE, raced |-> FALSE]
      /\ spent = 0
  BY DEF Init
<1>3. pages \subseteq Tabs
  <2>1. pages = {p \in Pages : query \in Route(p).mounts \/ \E f \in Route(p).forms : f.op = task}
                  \cup {IF task.scope = "console" THEN "adminLogin" ELSE "lobby"}
    BY DEF Init
  <2> QED
    BY <2>1, KnownRoutes DEF Tabs, Outside
<1>4. me \in Sessions /\ cookie \in Identities
  BY <1>1 DEF Sessions, Fetches, Identities
<1>5. entry \in Entries
  <2>1. 0 \in 0 .. MaxCalls /\ who \in Identities
    BY ClientAssumption DEF Identities
  <2>2. [NoRows EXCEPT !.who = who, !.seen = 0] \in RowsOf
    BY <2>1, ReadRows
  <2>3. [Absent EXCEPT !.rows = [NoRows EXCEPT !.who = who, !.seen = 0]] \in Entries
    BY <2>2, EmptyEntries DEF Entries
  <2>4. Refetch(Absent) \in Entries
    BY EmptyEntries, RefetchKeeps DEF Kept
  <2> QED
    BY <1>1, <2>3, <2>4, EmptyEntries
<1>0. 0 \in 0 .. MaxCalls /\ 0 \in 0 .. MaxEvents
  BY ClientAssumption
<1>6. past \in Pasts /\ spent \in 0 .. MaxEvents /\ form \in FormsOf
  <2>1. past \in Pasts
    BY <1>0, <1>2 DEF Pasts
  <2>2. form \in FormsOf
    BY <1>0, <1>2 DEF FormsOf
  <2> QED
    BY <1>0, <1>2, <2>1, <2>2
<1>7. TabTyped
  BY <1>1, <1>2, <1>3, <1>4, <1>5, <1>6 DEF TabTyped
<1>8. Idle \in [at : Stages, key : Nat, who : Identities, seen : 0 .. MaxCalls] /\ Idle.at = "idle" /\ Idle.key = 0
  BY ClientAssumption DEF Idle, Stages, Identities
<1>f. form.key = 1 /\ form.first = 1 /\ form.busy = 0
  BY <1>2
<1>9. calls \in CallsOf /\ \A c \in DOMAIN calls : calls[c].key \in 0 .. form.key
  <2>1. calls \in CallsOf
    BY <1>2, <1>8 DEF CallsOf
  <2>2. \A c \in DOMAIN calls : calls[c].key = 0
    BY <1>2, <1>8
  <2> QED
    BY <1>f, <2>1, <2>2
<1>10. Cardinality(Pending(calls)) = MaxCalls
  <2>1. Pending(calls) = 1 .. MaxCalls
    BY <1>2, <1>8 DEF Pending
  <2> QED
    BY <2>1, ClientAssumption, FS_Interval
<1>11. CallsTyped
  <2>1. server.writes = 0 /\ server.keys = {} /\ server \in [writes : 0 .. MaxCalls, keys : SUBSET Nat]
    BY <1>0, <1>2
  <2> QED
    BY <1>6, <1>9, <1>10, <1>f, <2>1, ClientAssumption DEF CallsTyped
<1>12. FormWaits
  BY <1>2 DEF FormWaits
<1> QED
  BY <1>7, <1>11, <1>12 DEF Typed

LEMMA NextTyped == ASSUME Typed, [Next]_vars PROVE Typed'
<1>1. DOMAIN calls = 1 .. MaxCalls
  BY DEF Typed, CallsTyped, CallsOf
<1>2. CASE QueryNext
  BY <1>2, QueryTyped
<1>3. CASE SessionNext
  BY <1>3, SessionTyped
<1>4. CASE TaskNext
  BY <1>1, <1>4, SubmitTyped, CommitTyped, AnswerOkTyped, AnswerErrorTyped, AnswerLostTyped DEF TaskNext
<1>5. CASE \E p \in pages : OpenPage(p)
  BY <1>5, OpenPageTyped
<1>6. CASE UNCHANGED vars
  <2>1. TabTyped' /\ Moved /\ UNCHANGED <<task, calls, server>>
    BY <1>6 DEF vars, Typed, TabTyped, FormWaits, Moved
  <2> QED
    BY <2>1, FormTyped DEF Typed
<1> QED
  BY <1>2, <1>3, <1>4, <1>5, <1>6 DEF Next

LEMMA TypedAlways == Spec => []Typed
<1>1. Init => Typed
  BY InitTyped
<1>2. Typed /\ [Next]_vars => Typed'
  BY NextTyped
<1> QED
  BY <1>1, <1>2, PTL DEF Spec

\* The types of the client hold, for any users, mutations, number of requests and number of
\* events: a tab stays on a page it may be on, and a form waits only for a call of its own key.
THEOREM TypeCorrect == Spec => []TypeOK
<1>1. Typed => TypeOK
  <2> SUFFICES ASSUME Typed PROVE TypeOK
    OBVIOUS
  <2>1. /\ page \in Pages /\ intent \in {Closed, Open} \cup PlayerPages /\ cookie \in Identities
        /\ spent \in 0 .. MaxEvents
    BY DEF Typed, TabTyped, Tabs
  <2>2. /\ me \in [shown : Identities, fetch : Fetches \ {"refused"}, got : Identities,
                   failed : BOOLEAN, expired : BOOLEAN, leaving : {Stay, "lobby", "adminLogin"}]
        /\ entry \in [rows : RowsOf, stale : BOOLEAN, fetch : Fetches, got : RowsOf, cutOff : BOOLEAN]
    BY DEF Typed, TabTyped, Sessions, Entries
  <2>3. /\ form.busy # 0 => Awaited(form.busy) /\ calls[form.busy].key = form.key
        /\ \A c \in DOMAIN calls : calls[c].key \in 0 .. form.key
        /\ server.writes \in 0 .. MaxCalls
    BY DEF Typed, CallsTyped, FormWaits
  <2> QED
    BY <2>1, <2>2, <2>3 DEF TypeOK
<1> QED
  BY <1>1, TypedAlways, PTL

-----------------------------------------------------------------------------
(* What the actions do to the session and to the entry *)

LEMMA ShownEffects ==
    ASSUME NEW who, NEW session \in Sessions, NEW e, Shown(who, session, e), past \in Pasts
    PROVE  /\ me'.shown = who /\ me'.fetch = session.fetch /\ me'.got = session.got
           /\ me'.expired = (session.expired \/ (me.shown # Guest /\ who = Guest))
           /\ past'.told = past.told /\ past'.ended = past.ended /\ past'.raced = past.raced
<1> PICK expired \in BOOLEAN : expired = (me.shown # Guest /\ who = Guest)
  OBVIOUS
<1>1. me' = [session EXCEPT !.shown = who, !.expired = @ \/ expired, !.failed = FALSE]
  BY DEF Shown
<1>2. PICK now \in BOOLEAN : now = (session.expired \/ expired)
  OBVIOUS
<1>3. me' = [session EXCEPT !.shown = who, !.expired = now, !.failed = FALSE]
  BY <1>1, <1>2
<1>4. past'.told = past.told /\ past'.ended = past.ended /\ past'.raced = past.raced
  BY DEF Shown, Pasts
<1> QED
  BY <1>2, <1>3, <1>4 DEF Sessions

LEMMA TaskEffects ==
    ASSUME Typed, TaskNext
    PROVE  /\ UNCHANGED <<task, query, pages, me, cookie>> /\ Kept(entry, entry')
           /\ past'.ended = past.ended /\ past'.raced = past.raced
<1>1. entry \in Entries /\ past \in Pasts /\ DOMAIN calls = 1 .. MaxCalls
  BY DEF Typed, TabTyped, CallsTyped, CallsOf
<1>2. PICK c \in 1 .. MaxCalls : Submit(c) \/ Commit(c) \/ AnswerOk(c) \/ AnswerError(c) \/ AnswerLost(c)
  BY <1>1 DEF TaskNext
<1>3. CASE Submit(c)
  BY <1>1, <1>3, KeptSame DEF Submit
<1>4. CASE Commit(c)
  BY <1>1, <1>4, KeptSame DEF Commit
<1>5. CASE AnswerOk(c)
  <2>1. Kept(entry, Invalidate(entry, task.stales))
    BY <1>1, InvalidateKeeps
  <2>2. /\ Kept(Invalidate(entry, task.stales), entry') /\ UNCHANGED <<task, query, pages, me, cookie, server, spent>>
        /\ past' = [past EXCEPT !.told = Told(c)]
    BY <1>5, AnswerOkTyped
  <2>3. Kept(entry, entry')
    BY <2>1, <2>2, KeptTwice
  <2> QED
    BY <1>1, <2>2, <2>3 DEF Pasts
<1>6. CASE AnswerError(c) \/ AnswerLost(c)
  <2>1. Settled(c) /\ UNCHANGED <<task, query, pages, me, cookie>>
    BY <1>6 DEF AnswerError, AnswerLost
  <2>2. /\ Kept(entry, entry')
        /\ UNCHANGED <<entry, past>> \/ past' = [past EXCEPT !.told = Told(c)]
    BY <2>1, SettledTyped
  <2> QED
    BY <1>1, <2>1, <2>2 DEF Pasts
<1> QED
  BY <1>2, <1>3, <1>4, <1>5, <1>6

LEMMA QueryEffects ==
    ASSUME Typed, QueryNext
    PROVE  /\ UNCHANGED <<task, query, pages, cookie, calls, server>>
           /\ past'.told = past.told /\ past'.ended = past.ended /\ past'.raced = past.raced
<1>1. past \in Pasts /\ me \in Sessions
  BY DEF Typed, TabTyped
<1>2. CASE QueryRefused
  BY <1>1, <1>2, ShownEffects DEF QueryRefused
<1>3. CASE QueryReads \/ QueryLands \/ QueryFails \/ Poll \/ SocketEvent
  BY <1>3 DEF QueryReads, QueryLands, QueryFails, Poll, SocketEvent
<1> QED
  BY <1>2, <1>3 DEF QueryNext

LEMMA RefusedEffects ==
    ASSUME Typed, QueryRefused
    PROVE  LET e == [entry EXCEPT !.fetch = "none"] IN
           /\ e \in Entries /\ Kept(e, entry') /\ me'.shown = Guest /\ me'.fetch = me.fetch /\ me'.got = me.got
           /\ me'.expired = (me.expired \/ me.shown # Guest)
<1> DEFINE e == [entry EXCEPT !.fetch = "none"]
<1>1. e \in Entries /\ Guest \in Identities /\ me \in Sessions /\ past \in Pasts
  BY DEF Typed, TabTyped, Entries, Fetches, Identities
<1>2. Shown(Guest, me, e) /\ UNCHANGED <<task, query, pages, cookie, spent>>
  BY DEF QueryRefused
<1> HIDE DEF e
<1>3. Kept(e, entry')
  BY <1>1, <1>2, ShownTyped
<1>4. /\ me'.shown = Guest /\ me'.fetch = me.fetch /\ me'.got = me.got
      /\ me'.expired = (me.expired \/ me.shown # Guest)
  BY <1>1, <1>2, ShownEffects
<1> QED
  BY <1>1, <1>3, <1>4 DEF e

\* A poll, and what comes over the socket, fetch rows again or declare them stale.
LEMMA PushEffects ==
    ASSUME Typed, Poll \/ SocketEvent
    PROVE  Kept(entry, entry') /\ UNCHANGED <<me, past>>
<1>1. entry \in Entries
  BY DEF Typed, TabTyped
<1>2. CASE Poll
  BY <1>1, <1>2, RefetchKeeps DEF Poll
<1>3. CASE SocketEvent
  BY <1>1, <1>3, RenderedKeeps, InvalidateKeeps DEF SocketEvent
<1> QED
  BY <1>2, <1>3

LEMMA MeLandsEffects ==
    ASSUME Typed, MeLands
    PROVE  /\ Kept(entry, entry') /\ me'.shown = me.got /\ me'.fetch = "none"
           /\ me'.expired = (me.expired \/ (me.shown # Guest /\ me.got = Guest))
           /\ past'.told = past.told /\ past'.ended = past.ended /\ past'.raced = past.raced
<1> DEFINE session == [me EXCEPT !.fetch = "none", !.got = Guest]
<1>1. me \in Sessions /\ past \in Pasts
  BY DEF Typed, TabTyped
<1>2. session \in Sessions /\ session.fetch = "none" /\ session.expired = me.expired
  BY <1>1 DEF Sessions, Fetches, Identities
<1>3. Shown(me.got, session, entry)
  BY DEF MeLands
<1> HIDE DEF session
<1>4. Kept(entry, entry')
  BY MeLandsTyped
<1> QED
  BY <1>1, <1>2, <1>3, <1>4, ShownEffects

\* A new session, or the end of one, answered: whoever it is starts from nothing, unless a
\* /me is still to land.
LEMMA IdentityEffects ==
    ASSUME Typed, SignedOut \/ \E who \in Users : SignIn(who)
    PROVE  /\ me'.fetch = me.fetch /\ me'.got = me.got /\ me'.expired = FALSE
           /\ past'.told = 0 /\ past'.raced = (past.raced \/ me.fetch # "none")
           /\ entry'.fetch \in {"none", "asked"} /\ (entry'.cutOff => entry'.fetch = "none")
           /\ entry'.rows = NoRows \/ entry'.cutOff
           /\ query.scope # "public" => entry'.rows = NoRows /\ ~entry'.cutOff
           /\ UNCHANGED <<task, query, pages, calls, server>>
           /\ \/ me'.shown = Guest /\ cookie' = cookie
              \/ me'.shown \in Users /\ cookie' = me'.shown
<1>1. me \in Sessions /\ entry \in Entries
  BY DEF Typed, TabTyped
<1>2. ASSUME past' = NewPast PROVE past'.told = 0 /\ past'.raced = (past.raced \/ me.fetch # "none")
  BY <1>2 DEF NewPast
<1>3. CASE SignedOut
  <2>1. /\ me' = [me EXCEPT !.shown = Guest, !.expired = FALSE, !.failed = FALSE, !.leaving = Stay] /\ past' = NewPast
        /\ UNCHANGED <<task, query, pages, cookie, calls, server>>
    BY <1>3 DEF SignedOut
  <2>2. PICK to : entry' = dropGuestQueries(to, Guest, TRUE)
    BY <1>3 DEF SignedOut
  <2>3. /\ entry'.fetch \in {"none", "asked"} /\ (entry'.cutOff => entry'.fetch = "none")
        /\ entry'.rows = NoRows \/ entry'.cutOff
        /\ query.scope # "public" => entry'.rows = NoRows /\ ~entry'.cutOff
    BY <1>1, <2>2, DropsAll
  <2>4. me'.fetch = me.fetch /\ me'.got = me.got /\ me'.expired = FALSE /\ me'.shown = Guest
    BY <1>1, <2>1 DEF Sessions
  <2> QED
    BY <1>2, <2>1, <2>3, <2>4
<1>4. ASSUME NEW who \in Users, SignIn(who)
      PROVE  /\ me'.fetch = me.fetch /\ me'.got = me.got /\ me'.expired = FALSE /\ past' = NewPast
             /\ entry'.fetch \in {"none", "asked"} /\ (entry'.cutOff => entry'.fetch = "none")
             /\ entry'.rows = NoRows \/ entry'.cutOff
             /\ query.scope # "public" => entry'.rows = NoRows /\ ~entry'.cutOff
             /\ UNCHANGED <<task, query, pages, calls, server>>
             /\ me'.shown \in Users /\ cookie' = me'.shown
  <2>1. /\ me' = [me EXCEPT !.shown = who, !.expired = FALSE, !.failed = FALSE] /\ past' = NewPast /\ cookie' = who
        /\ UNCHANGED <<task, query, pages, calls, server>>
    BY <1>4 DEF SignIn
  <2>2. \E to, navigates : entry' = dropGuestQueries(to, who, navigates)
    BY <1>4 DEF SignIn
  <2>3. PICK to, navigates : entry' = dropGuestQueries(to, who, navigates)
    BY <2>2
  <2>4. /\ entry'.fetch \in {"none", "asked"} /\ (entry'.cutOff => entry'.fetch = "none")
        /\ entry'.rows = NoRows \/ entry'.cutOff
        /\ query.scope # "public" => entry'.rows = NoRows /\ ~entry'.cutOff
    BY <1>1, <2>3, DropsAll
  <2>5. me'.fetch = me.fetch /\ me'.got = me.got /\ me'.expired = FALSE /\ me'.shown = who
    BY <1>1, <2>1 DEF Sessions
  <2> QED
    BY <2>1, <2>4, <2>5
<1> QED
  BY <1>2, <1>3, <1>4

-----------------------------------------------------------------------------
(* "Session expired" is true *)

LEMMA GuestIsNobody == Guest \notin Users
BY ClientAssumption

LEMMA QueryExpiring == ASSUME Typed, Expiring, QueryNext PROVE Expiring'
<1>1. entry \in Entries /\ past'.ended = past.ended /\ past'.raced = past.raced /\ cookie' = cookie
  BY QueryEffects DEF Typed, TabTyped
<1>2. CASE QueryReads
  <2>1. UNCHANGED <<me, past>> /\ (entry'.fetch = "refused" => cookie = Guest)
    BY <1>1, <1>2 DEF QueryReads, Entries
  <2> QED
    BY <1>1, <2>1 DEF Expiring, OverForAReason, RefusedToNobody
<1>3. CASE QueryLands \/ QueryFails
  <2>1. UNCHANGED <<me, past>> /\ entry'.fetch = "none"
    BY <1>1, <1>3 DEF QueryLands, QueryFails, Entries
  <2> QED
    BY <1>1, <2>1 DEF Expiring, OverForAReason, RefusedToNobody
<1>4. CASE Poll \/ SocketEvent
  BY <1>1, <1>4, PushEffects DEF Expiring, OverForAReason, RefusedToNobody, Kept
<1>5. CASE QueryRefused
  <2>1. cookie = Guest
    BY <1>5 DEF QueryRefused, Expiring, RefusedToNobody
  <2>2. /\ me'.shown = Guest /\ me'.fetch = me.fetch /\ me'.got = me.got
        /\ me'.expired = (me.expired \/ me.shown # Guest)
    BY <1>5, RefusedEffects
  <2>3. RefusedToNobody'
    BY <1>1, <2>1 DEF RefusedToNobody
  <2>4. OverForAReason'
    BY <1>1, <2>1, <2>2 DEF Expiring, OverForAReason
  <2> QED
    BY <2>3, <2>4 DEF Expiring
<1> QED
  BY <1>2, <1>3, <1>4, <1>5 DEF QueryNext

LEMMA SessionExpiring == ASSUME Typed, Expiring, SessionNext PROVE Expiring'
<1>1. me \in Sessions /\ entry \in Entries /\ past \in Pasts /\ cookie \in Identities
  BY DEF Typed, TabTyped
<1>2. CASE MeReads
  <2>1. /\ me'.shown = me.shown /\ me'.fetch = "read" /\ me'.got = cookie /\ me'.expired = me.expired
        /\ UNCHANGED <<cookie, entry, past>>
    BY <1>1, <1>2 DEF MeReads, Sessions
  <2> QED
    BY <2>1 DEF Expiring, OverForAReason, RefusedToNobody
<1>3. CASE MeLands
  <2>1. UNCHANGED cookie /\ me.fetch = "read"
    BY <1>3 DEF MeLands
  <2> QED
    BY <1>3, <2>1, MeLandsEffects DEF Expiring, OverForAReason, RefusedToNobody, Kept
<1>4. CASE MeFails \/ TryAgain \/ SignOutLost \/ AskToSignIn
  <2>1. /\ me'.shown = me.shown /\ me'.fetch \in {"none", "asked", me.fetch} /\ me'.got = me.got /\ me'.expired = me.expired
        /\ UNCHANGED <<cookie, entry, past>>
    BY <1>1, <1>4 DEF MeFails, TryAgain, SignOutLost, AskToSignIn, Sessions
  <2> QED
    BY <2>1 DEF Expiring, OverForAReason, RefusedToNobody
<1>5. CASE SessionEnds \/ SignOut
  <2>1. past'.ended = TRUE /\ entry' = entry /\ cookie' = Guest
    BY <1>1, <1>5 DEF SessionEnds, SignOut, Pasts
  <2> QED
    BY <2>1 DEF Expiring, OverForAReason, RefusedToNobody
<1>6. CASE KeepBrowsing \/ SignInAgain
  <2>1. /\ me'.shown = me.shown /\ me'.fetch = me.fetch /\ me'.got = me.got /\ me'.expired = FALSE
        /\ past'.ended = past.ended /\ past'.raced = past.raced /\ cookie' = cookie
    BY <1>1, <1>6 DEF KeepBrowsing, SignInAgain, Sessions, Pasts
  <2>2. Kept(entry, entry')
    BY <1>1, <1>6, KeptSame, SignInAgainTyped DEF KeepBrowsing
  <2> QED
    BY <2>1, <2>2 DEF Expiring, OverForAReason, RefusedToNobody, Kept
<1>7. CASE SignedOut \/ \E who \in Users : SignIn(who)
  <2>1. /\ me'.fetch = me.fetch /\ me'.got = me.got /\ me'.expired = FALSE
        /\ past'.raced = (past.raced \/ me.fetch # "none") /\ entry'.fetch \in {"none", "asked"}
        /\ \/ me'.shown = Guest /\ cookie' = cookie
           \/ me'.shown \in Users /\ cookie' = me'.shown
    BY <1>7, IdentityEffects
  <2>2. RefusedToNobody'
    BY <2>1 DEF RefusedToNobody
  <2>3. OverForAReason'
    BY <2>1, GuestIsNobody DEF OverForAReason
  <2> QED
    BY <2>2, <2>3 DEF Expiring
<1> QED
  BY <1>2, <1>3, <1>4, <1>5, <1>6, <1>7 DEF SessionNext

LEMMA NextExpiring == ASSUME Typed, Expiring, [Next]_vars PROVE Expiring'
<1>1. CASE TaskNext
  BY <1>1, TaskEffects DEF Expiring, OverForAReason, RefusedToNobody, Kept
<1>2. ASSUME NEW p \in pages, OpenPage(p) PROVE Expiring'
  <2>1. past'.ended = past.ended /\ past'.raced = past.raced /\ cookie' = cookie
    BY <1>2 DEF OpenPage, Typed, TabTyped, Pasts
  <2> QED
    BY <1>2, <2>1, OpenPageTyped DEF Expiring, OverForAReason, RefusedToNobody, Kept
<1>3. CASE UNCHANGED vars
  BY <1>3 DEF vars, Expiring, OverForAReason, RefusedToNobody
<1> QED
  BY <1>1, <1>2, <1>3, QueryExpiring, SessionExpiring DEF Next

\* The dialog that says the session has expired is up only if a session has ended, or a /me of
\* an identity before this one was still to land when it began: no 401 of a request sent
\* before signing in puts it up.
THEOREM ExpiryStaysReal == Spec => []ExpiryIsReal
<1>1. Init => Expiring
  <2> SUFFICES ASSUME Init PROVE Expiring
    OBVIOUS
  <2>1. PICK who : /\ cookie = who
                   /\ me = [shown |-> who, fetch |-> "none", got |-> Guest, failed |-> FALSE,
                            expired |-> FALSE, leaving |-> Stay]
    BY DEF Init
  <2>2. entry.fetch # "refused"
    <3>1. PICK rows : entry \in {Absent, [Absent EXCEPT !.rows = rows], Refetch(Absent)}
      BY DEF Init
    <3>2. Absent.fetch = "none" /\ [Absent EXCEPT !.rows = rows].fetch = "none"
      BY DEF Absent
    <3>3. Refetch(Absent).fetch = "asked"
      BY DEF Refetch, Absent
    <3> QED
      BY <3>1, <3>2, <3>3
  <2> QED
    BY <2>1, <2>2 DEF Expiring, OverForAReason, RefusedToNobody
<1>2. Typed /\ Expiring /\ [Next]_vars => Expiring'
  BY NextExpiring
<1>3. Expiring => ExpiryIsReal
  BY DEF Expiring, OverForAReason, ExpiryIsReal
<1> QED
  BY <1>1, <1>2, <1>3, TypedAlways, PTL DEF Spec

-----------------------------------------------------------------------------
(* Nobody sees another's data *)

LEMMA QueryOneUser == ASSUME Typed, OneUser, QueryNext PROVE OneUser'
<1> SUFFICES ASSUME query.scope \in {"own", "console"}, ~past.raced
             PROVE  \E X \in Identities : /\ Whose(entry, X)' /\ cookie' \in {X, Guest} /\ me'.shown \in {X, Guest}
                                          /\ me'.fetch = "read" => me'.got \in {X, Guest}
  BY QueryEffects DEF OneUser
<1>1. entry \in Entries /\ me \in Sessions
  BY DEF Typed, TabTyped
<1>2. PICK X \in Identities : /\ Whose(entry, X) /\ cookie \in {X, Guest} /\ me.shown \in {X, Guest}
                              /\ me.fetch = "read" => me.got \in {X, Guest}
  BY DEF OneUser
<1>3. cookie' = cookie
  BY QueryEffects
<1>4. CASE QueryReads
  <2>1. me' = me
    BY <1>4 DEF QueryReads
  <2>2. CASE cookie = Guest
    <3>1. entry' = [entry EXCEPT !.fetch = "refused"]
      BY <1>4, <2>2 DEF QueryReads
    <3> QED
      BY <1>1, <1>2, <1>3, <2>1, <3>1 DEF Whose, Entries
  <2>3. CASE cookie # Guest
    <3> PICK got : got = [NoRows EXCEPT !.who = cookie, !.seen = server.writes]
      OBVIOUS
    <3>1. entry' = [entry EXCEPT !.fetch = "read", !.got = got]
      BY <1>4, <2>3 DEF QueryReads
    <3>2. got.who = cookie
      BY DEF NoRows
    <3> QED
      BY <1>1, <1>2, <1>3, <2>1, <2>3, <3>1, <3>2 DEF Whose, Entries
  <2> QED
    BY <2>2, <2>3
<1>5. CASE QueryLands
  BY <1>1, <1>2, <1>3, <1>5 DEF QueryLands, Whose, Entries
<1>6. CASE QueryFails
  BY <1>1, <1>2, <1>3, <1>6 DEF QueryFails, Whose, Entries
<1>7. CASE Poll \/ SocketEvent
  BY <1>2, <1>3, <1>7, PushEffects, KeptWhose
<1>8. CASE QueryRefused
  <2> DEFINE e == [entry EXCEPT !.fetch = "none"]
  <2>1. Whose(e, X)
    BY <1>1, <1>2 DEF Whose, Entries
  <2>2. Kept(e, entry') /\ me'.shown = Guest /\ me'.fetch = me.fetch /\ me'.got = me.got
    BY <1>8, RefusedEffects
  <2> HIDE DEF e
  <2>3. Whose(entry', X)
    BY <2>1, <2>2, KeptWhose
  <2> QED
    BY <1>2, <1>3, <2>2, <2>3
<1> QED
  BY <1>4, <1>5, <1>6, <1>7, <1>8 DEF QueryNext

LEMMA SessionOneUser == ASSUME Typed, OneUser, SessionNext PROVE OneUser'
<1>1. me \in Sessions /\ entry \in Entries /\ past \in Pasts /\ query' = query
  BY DEF Typed, TabTyped, SessionNext, MeReads, MeLands, MeFails, TryAgain, SessionEnds, AskToSignIn, SignOut,
         SignedOut, SignOutLost, KeepBrowsing, SignInAgain, SignIn
<1>2. CASE SignedOut \/ \E who \in Users : SignIn(who)
  <2> SUFFICES ASSUME query.scope \in {"own", "console"}, ~past'.raced
               PROVE  \E X \in Identities : /\ Whose(entry, X)' /\ cookie' \in {X, Guest} /\ me'.shown \in {X, Guest}
                                            /\ me'.fetch = "read" => me'.got \in {X, Guest}
    BY <1>1 DEF OneUser
  <2>1. /\ me'.fetch = me.fetch /\ past'.raced = (past.raced \/ me.fetch # "none")
        /\ entry'.fetch \in {"none", "asked"} /\ entry'.rows = NoRows /\ ~entry'.cutOff
        /\ \/ me'.shown = Guest /\ cookie' = cookie
           \/ me'.shown \in Users /\ cookie' = me'.shown
    BY <1>2, IdentityEffects
  <2>2. \A X : Whose(entry', X)
    BY <2>1 DEF Whose
  <2>3. CASE me'.shown \in Users /\ cookie' = me'.shown
    BY <2>1, <2>2, <2>3 DEF Identities
  <2>4. CASE me'.shown = Guest /\ cookie' = cookie
    <3>1. PICK X \in Identities : cookie \in {X, Guest}
      BY <2>1 DEF OneUser
    <3> QED
      BY <2>1, <2>2, <2>4, <3>1
  <2> QED
    BY <2>1, <2>3, <2>4
<1>3. CASE ~(SignedOut \/ \E who \in Users : SignIn(who))
  <2>1. /\ past'.raced = past.raced /\ Kept(entry, entry') /\ cookie' \in {cookie, Guest}
        /\ me'.shown \in {me.shown, Guest} \/ (me'.shown = me.got /\ me.fetch = "read")
        /\ me'.fetch = "read" => (me'.got = cookie \/ (me.fetch = "read" /\ me'.got = me.got))
    <3>1. CASE MeReads \/ MeFails \/ TryAgain \/ SignOutLost \/ AskToSignIn
      BY <1>1, <3>1, KeptSame DEF MeReads, MeFails, TryAgain, SignOutLost, AskToSignIn, Sessions
    <3>2. CASE MeLands
      <4>1. cookie' = cookie /\ me.fetch = "read"
        BY <3>2 DEF MeLands
      <4> QED
        BY <3>2, <4>1, MeLandsEffects
    <3>3. CASE SessionEnds \/ SignOut
      BY <1>1, <3>3, KeptSame DEF SessionEnds, SignOut, Pasts, Sessions
    <3>4. CASE KeepBrowsing
      BY <1>1, <3>4, KeptSame DEF KeepBrowsing, Pasts, Sessions
    <3>5. CASE SignInAgain
      <4>1. Kept(entry, entry')
        BY <3>5, SignInAgainTyped
      <4> QED
        BY <1>1, <3>5, <4>1 DEF SignInAgain, Sessions
    <3> QED
      BY <1>3, <3>1, <3>2, <3>3, <3>4, <3>5 DEF SessionNext
  <2> SUFFICES ASSUME query.scope \in {"own", "console"}, ~past.raced
               PROVE  \E X \in Identities : /\ Whose(entry, X)' /\ cookie' \in {X, Guest} /\ me'.shown \in {X, Guest}
                                            /\ me'.fetch = "read" => me'.got \in {X, Guest}
    BY <1>1, <2>1 DEF OneUser
  <2>2. PICK X \in Identities : /\ Whose(entry, X) /\ cookie \in {X, Guest} /\ me.shown \in {X, Guest}
                                /\ me.fetch = "read" => me.got \in {X, Guest}
    BY DEF OneUser
  <2>3. Whose(entry', X)
    BY <2>1, <2>2, KeptWhose
  <2> QED
    BY <2>1, <2>2, <2>3
<1> QED
  BY <1>2, <1>3

LEMMA NextOneUser == ASSUME Typed, OneUser, [Next]_vars PROVE OneUser'
<1>1. CASE TaskNext
  <2>1. /\ UNCHANGED <<query, me, cookie>> /\ Kept(entry, entry') /\ past'.raced = past.raced
    BY <1>1, TaskEffects
  <2>2. \A X : Whose(entry, X) => Whose(entry', X)
    BY <2>1, KeptWhose
  <2> QED
    BY <2>1, <2>2 DEF OneUser
<1>2. ASSUME NEW p \in pages, OpenPage(p) PROVE OneUser'
  <2>1. past'.raced = past.raced /\ cookie' = cookie /\ query' = query
    BY <1>2 DEF OpenPage, Typed, TabTyped, Pasts
  <2>2. Kept(entry, entry') /\ me'.got = me.got /\ me'.shown = me.shown /\ me'.fetch \in {"asked", me.fetch}
    BY <1>2, OpenPageTyped
  <2>3. \A X : Whose(entry, X) => Whose(entry', X)
    BY <2>2, KeptWhose
  <2> QED
    BY <2>1, <2>2, <2>3 DEF OneUser
<1>3. CASE UNCHANGED vars
  BY <1>3 DEF vars, OneUser, Whose
<1> QED
  BY <1>1, <1>2, <1>3, QueryOneUser, SessionOneUser DEF Next

\* Rows that were fetched for one user are never on screen while the tab shows another,
\* whatever was on its way when the one signed out and the other in, unless a /me of the first
\* was.
THEOREM OnlyOwnDataShown == Spec => []OnlyOwnData
<1>1. Init => OneUser
  <2> SUFFICES ASSUME Init, query.scope \in {"own", "console"}
               PROVE  \E X \in Identities : /\ Whose(entry, X) /\ cookie \in {X, Guest} /\ me.shown \in {X, Guest}
                                            /\ me.fetch = "read" => me.got \in {X, Guest}
    BY DEF OneUser
  <2>1. PICK who \in Users \cup {Guest}, loaded \in BOOLEAN :
          /\ cookie = who
          /\ me = [shown |-> who, fetch |-> "none", got |-> Guest, failed |-> FALSE,
                   expired |-> FALSE, leaving |-> Stay]
          /\ entry = IF ~OnScreen(page, who) THEN Absent
                     ELSE IF loaded THEN [Absent EXCEPT !.rows = [NoRows EXCEPT !.who = who, !.seen = 0]]
                     ELSE Refetch(Absent)
    BY DEF Init
  <2>3. Whose(Absent, who) /\ Whose(Refetch(Absent), who)
    BY DEF Whose, Absent, Refetch
  <2>4. Whose([Absent EXCEPT !.rows = [NoRows EXCEPT !.who = who, !.seen = 0]], who)
    BY DEF Whose, Absent, NoRows
  <2>5. Whose(entry, who)
    <3>1. CASE ~OnScreen(page, who)
      BY <2>1, <2>3, <3>1
    <3>2. CASE OnScreen(page, who)
      BY <2>1, <2>3, <2>4, <3>2
    <3> QED
      BY <3>1, <3>2
  <2> QED
    BY <2>1, <2>5 DEF Identities
<1>2. Typed /\ OneUser /\ [Next]_vars => OneUser'
  BY NextOneUser
<1>3. OneUser => OnlyOwnData
  BY DEF OneUser, OnlyOwnData, Whose, HasRows, Displayed, OnScreen, IsMounted
<1> QED
  BY <1>1, <1>2, <1>3, TypedAlways, PTL DEF Spec

-----------------------------------------------------------------------------
(* A form makes one request *)

LEMMA FormLeft ==
    ASSUME QueryNext \/ SessionNext \/ \E p \in pages : OpenPage(p)
    PROVE  UNCHANGED <<task, calls, server>> /\ (form' = form \/ form' = NewForm)
<1>1. \A to : FormAt(to) = form \/ FormAt(to) = NewForm
  BY DEF FormAt
<1>2. ASSUME NEW to, NEW who, NEW e, NEW old, Goto(to, who, e, old) PROVE form' = form \/ form' = NewForm
  BY <1>1, <1>2 DEF Goto
<1>3. CASE QueryNext
  BY <1>2, <1>3 DEF QueryNext, QueryReads, QueryLands, QueryFails, QueryRefused, Poll, SocketEvent, Shown
<1>4. CASE SessionNext
  BY <1>1, <1>2, <1>4
     DEF SessionNext, MeReads, MeLands, MeFails, TryAgain, SessionEnds, AskToSignIn, SignOut, SignedOut,
         SignOutLost, KeepBrowsing, SignInAgain, SignIn, Shown
<1>5. CASE \E p \in pages : OpenPage(p)
  BY <1>2, <1>5 DEF OpenPage
<1> QED
  BY <1>3, <1>4, <1>5

\* A new form has given nothing up, and nobody waits for a key of its.
LEMMA OneKeyAnew ==
    ASSUME Typed, OneKey, task' = task, form' = NewForm, server' = server, DOMAIN calls' = DOMAIN calls,
           \A c \in DOMAIN calls : calls'[c].key = calls[c].key
    PROVE  OneKey'
<1>1. /\ form'.first = NextKey /\ form'.key = NextKey /\ NextKey \in Nat
      /\ task.keyed => form.key < NextKey
  BY NewFormTyped
<1>2. \A c \in DOMAIN calls : calls[c].key \in 0 .. form.key
  BY DEF Typed, CallsTyped
<1>3. form.key \in Nat
  BY DEF Typed, CallsTyped, FormsOf
<1>4. GivenUp' = {}
  BY <1>1 DEF GivenUp
<1>5. task.keyed => \A c \in DOMAIN calls' : ~(calls'[c].key >= form'.first)
  BY <1>1, <1>2, <1>3
<1> QED
  BY <1>4, <1>5 DEF OneKey

LEMMA OneKeyLeft ==
    ASSUME Typed, OneKey, UNCHANGED <<task, calls, server>>, form' = form \/ form' = NewForm
    PROVE  OneKey'
<1>1. CASE form' = form
  BY <1>1 DEF OneKey, GivenUp, Awaited
<1>2. CASE form' = NewForm
  BY <1>2, OneKeyAnew
<1> QED
  BY <1>1, <1>2

LEMMA SubmitOneKey == ASSUME Typed, OneKey, NEW c \in 1 .. MaxCalls, Submit(c) PROVE OneKey'
<1>1. /\ calls \in CallsOf /\ form \in FormsOf /\ DOMAIN calls = 1 .. MaxCalls
  BY DEF Typed, CallsTyped, CallsOf
<1>2. /\ form'.busy = c /\ form'.key = form.key /\ form'.first = form.first /\ form'.misled = form.misled
      /\ form.busy = 0 /\ server' = server /\ task' = task
  BY <1>1 DEF Submit, FormsOf
<1>3. /\ calls'[c].key = form.key /\ DOMAIN calls' = DOMAIN calls
      /\ \A b \in DOMAIN calls : b # c => calls'[b] = calls[b]
  BY <1>1 DEF Submit
<1>4. GivenUp' = GivenUp /\ form.key \notin GivenUp
  BY <1>1, <1>2 DEF GivenUp, FormsOf
<1>5. ASSUME task.keyed, NEW b \in DOMAIN calls', Awaited(b)', calls'[b].key >= form'.first PROVE b = form'.busy
  <2>1. CASE b = c
    BY <1>2, <2>1
  <2>2. CASE b # c
    <3>1. Awaited(b) /\ calls[b].key >= form.first
      BY <1>2, <1>3, <1>5, <2>2 DEF Awaited
    <3>2. b = 0
      BY <1>2, <1>3, <1>5, <3>1 DEF OneKey
    <3> QED
      BY <1>1, <1>3, <3>2
  <2> QED
    BY <2>1, <2>2
<1>6. ASSUME task.keyed, ~form'.misled, NEW b \in DOMAIN calls', calls'[b].at \in {"sent", "adrift"}
      PROVE  calls'[b].key \notin GivenUp'
  BY <1>2, <1>3, <1>4, <1>6 DEF OneKey
<1>7. task.keyed /\ ~form'.misled => GivenUp' \cap server'.keys = {}
  BY <1>2, <1>4 DEF OneKey
<1> QED
  BY <1>2, <1>5, <1>6, <1>7 DEF OneKey

LEMMA CommitOneKey == ASSUME Typed, OneKey, NEW c \in 1 .. MaxCalls, Commit(c) PROVE OneKey'
<1>1. DOMAIN calls = 1 .. MaxCalls /\ calls[c] \in [at : Stages, key : Nat, who : Identities, seen : 0 .. MaxCalls]
  BY DEF Typed, CallsTyped, CallsOf
<1>2. /\ server'.keys = server.keys \cup {calls[c].key} /\ UNCHANGED <<task, form>>
      /\ calls[c].at \in {"sent", "adrift"}
  BY DEF Commit
<1>3. PICK writes : calls' = [calls EXCEPT ![c].at = IF @ = "sent" THEN "committed" ELSE "over", ![c].seen = writes]
  BY DEF Commit
<1>4. /\ calls'[c].key = calls[c].key /\ DOMAIN calls' = DOMAIN calls
      /\ calls'[c].at = (IF calls[c].at = "sent" THEN "committed" ELSE "over")
      /\ \A b \in DOMAIN calls : b # c => calls'[b] = calls[b]
  BY <1>1, <1>3
<1>5. GivenUp' = GivenUp
  BY <1>2 DEF GivenUp
<1>6. ASSUME task.keyed, NEW b \in DOMAIN calls', Awaited(b)', calls'[b].key >= form'.first PROVE b = form'.busy
  <2>1. Awaited(b) /\ calls[b].key >= form.first
    BY <1>2, <1>4, <1>6 DEF Awaited
  <2> QED
    BY <1>2, <1>4, <1>6, <2>1 DEF OneKey
<1>7. ASSUME task.keyed, ~form'.misled, NEW b \in DOMAIN calls', calls'[b].at \in {"sent", "adrift"}
      PROVE  calls'[b].key \notin GivenUp'
  BY <1>2, <1>4, <1>5, <1>7 DEF OneKey
<1>8. task.keyed /\ ~form'.misled => GivenUp' \cap server'.keys = {}
  BY <1>1, <1>2, <1>5 DEF OneKey
<1> QED
  BY <1>2, <1>6, <1>7, <1>8 DEF OneKey

\* An answer, or none, leaves the other calls as they were and waits for them no more.
LEMMA ResolvedOneKey ==
    ASSUME Typed, OneKey, NEW c \in 1 .. MaxCalls, NEW stage, Resolves(c, stage), UNCHANGED <<task, server>>,
           form' \in FormsOf, form'.first = form.first, form'.key >= form.key,
           form'.busy = IF form.busy = c THEN 0 ELSE form.busy,
           task.keyed /\ ~form'.misled =>
               /\ ~form.misled
               /\ form'.key # form.key => /\ form'.key = form.key + 1 /\ form.busy = c /\ stage = "over"
                                          /\ ~MayName(form.key, c)
    PROVE  OneKey'
<1>1. /\ calls'[c].at = stage /\ calls'[c].key = calls[c].key /\ DOMAIN calls' = DOMAIN calls
      /\ \A b \in DOMAIN calls : b # c => calls'[b] = calls[b]
      /\ DOMAIN calls = 1 .. MaxCalls
  BY ResolvedCall DEF Advances
<1>2. form \in FormsOf /\ calls \in CallsOf /\ server.keys \subseteq Nat
  BY DEF Typed, CallsTyped
<1>3. Awaited(c) /\ stage \in {"adrift", "over"} /\ (stage = "adrift" => calls[c].at = "sent")
  BY DEF Resolves
<1>4. ASSUME task.keyed, NEW b \in DOMAIN calls', Awaited(b)', calls'[b].key >= form'.first PROVE b = form'.busy
  <2>1. b # c
    BY <1>1, <1>3, <1>4 DEF Awaited
  <2>2. Awaited(b) /\ calls[b].key >= form.first
    BY <1>1, <1>4, <2>1 DEF Awaited
  <2>3. b = form.busy
    BY <1>1, <1>4, <2>2 DEF OneKey
  <2> QED
    BY <2>1, <2>3
<1>5. ASSUME task.keyed, ~form'.misled
      PROVE  /\ GivenUp' \cap server'.keys = {}
             /\ \A b \in DOMAIN calls' : calls'[b].at \in {"sent", "adrift"} => calls'[b].key \notin GivenUp'
  <2>1. /\ GivenUp \cap server.keys = {}
        /\ \A b \in DOMAIN calls : calls[b].at \in {"sent", "adrift"} => calls[b].key \notin GivenUp
    BY <1>5 DEF OneKey
  <2>2. CASE form'.key = form.key
    <3>1. GivenUp' = GivenUp
      BY <2>2 DEF GivenUp
    <3> QED
      BY <1>1, <1>3, <2>1, <3>1
  <2>3. CASE form'.key # form.key
    <3>1. /\ form'.key = form.key + 1 /\ form.busy = c /\ stage = "over" /\ ~MayName(form.key, c)
      BY <1>5, <2>3
    <3>2. GivenUp' = GivenUp \cup {form.key}
      BY <1>2, <3>1 DEF GivenUp, FormsOf, Typed, CallsTyped
    <3>3. form.key \notin server.keys
      BY <1>5, <3>1 DEF MayName, Recorded
    <3>4. ASSUME NEW b \in DOMAIN calls', calls'[b].at \in {"sent", "adrift"} PROVE calls'[b].key \notin GivenUp'
      <4>1. b # c /\ calls'[b] = calls[b] /\ b \in DOMAIN calls
        BY <1>1, <3>1, <3>4
      <4>2. calls[b].key # form.key
        <5>1. CASE calls[b].at = "adrift"
          BY <1>1, <3>1, <4>1, <5>1 DEF MayName
        <5>2. CASE calls[b].at = "sent"
          <6>1. Awaited(b)
            BY <5>2 DEF Awaited
          <6>2. ~(calls[b].key >= form.first)
            BY <1>5, <3>1, <4>1, <6>1 DEF OneKey
          <6>3. form.key >= form.first
            BY <1>2 DEF Typed, CallsTyped, FormsOf
          <6> QED
            BY <6>2, <6>3
        <5> QED
          BY <3>4, <4>1, <5>1, <5>2
      <4> QED
        BY <2>1, <3>2, <3>4, <4>1, <4>2
    <3> QED
      BY <2>1, <3>2, <3>3, <3>4
  <2> QED
    BY <2>2, <2>3
<1> QED
  BY <1>4, <1>5 DEF OneKey

LEMMA AnswerOkOneKey == ASSUME Typed, OneKey, NEW c \in 1 .. MaxCalls, AnswerOk(c) PROVE OneKey'
<1>1. /\ Resolves(c, "over") /\ (form' = NewForm \/ form' = form) /\ UNCHANGED <<task, server>> /\ Typed'
  BY AnswerOkTyped
<1>2. /\ calls'[c].at = "over" /\ calls'[c].key = calls[c].key /\ DOMAIN calls' = DOMAIN calls
      /\ \A b \in DOMAIN calls : b # c => calls'[b] = calls[b]
  BY <1>1, ResolvedCall DEF Advances
<1>3. CASE form' = NewForm
  BY <1>1, <1>2, <1>3, OneKeyAnew
<1>4. CASE form' = form
  <2>1. form.busy # c
    BY <1>1, <1>2, <1>4 DEF Typed, FormWaits, Awaited
  <2>2. form \in FormsOf
    BY DEF Typed, CallsTyped
  <2>3. form.key \in Nat
    BY <2>2 DEF FormsOf
  <2>4. task.keyed /\ ~form'.misled => ~form.misled
    BY <1>4
  <2> QED
    BY <1>1, <1>4, <2>1, <2>2, <2>3, <2>4, ResolvedOneKey
<1> QED
  BY <1>1, <1>3, <1>4

LEMMA AnswerErrorOneKey == ASSUME Typed, OneKey, NEW c \in 1 .. MaxCalls, AnswerError(c) PROVE OneKey'
<1>1. /\ UNCHANGED <<task, server>>
      /\ \E adrift \in {FALSE, calls[c].at = "sent"} :
            /\ Resolves(c, IF adrift THEN "adrift" ELSE "over")
            /\ form' = IF form.busy = c THEN RenewKey(form, adrift \/ MayName(form.key, c)) ELSE form
  BY AnswerErrorTyped
<1>2. PICK adrift \in BOOLEAN :
        /\ Resolves(c, IF adrift THEN "adrift" ELSE "over")
        /\ form' = IF form.busy = c THEN RenewKey(form, adrift \/ MayName(form.key, c)) ELSE form
  BY <1>1
<1>3. form \in FormsOf /\ form.key \in Nat
  BY DEF Typed, CallsTyped, FormsOf
<1>4. CASE form.busy # c
  BY <1>1, <1>2, <1>3, <1>4, ResolvedOneKey
<1>5. CASE form.busy = c
  <2>1. PICK named \in BOOLEAN : named = (adrift \/ MayName(form.key, c))
    OBVIOUS
  <2>2. form' = RenewKey(form, named)
    BY <1>2, <1>5, <2>1
  <2>3. /\ form' \in FormsOf /\ form'.busy = 0 /\ form'.first = form.first /\ form'.key = NextKey
        /\ form'.misled = (task.keyed /\ (form.misled \/ named))
    BY <2>2, RenewedForm
  <2>4. NextKey = (IF task.keyed THEN form.key + 1 ELSE form.key) /\ form.key <= NextKey
    BY <1>3 DEF NextKey
  <2> DEFINE stage == IF adrift THEN "adrift" ELSE "over"
  <2>5. task.keyed /\ ~form'.misled =>
          ~form.misled /\ form'.key = form.key + 1 /\ stage = "over" /\ ~MayName(form.key, c)
    BY <2>1, <2>3, <2>4
  <2>6. Resolves(c, stage)
    BY <1>2
  <2> HIDE DEF stage
  <2> QED
    BY <1>1, <1>5, <2>3, <2>4, <2>5, <2>6, ResolvedOneKey
<1> QED
  BY <1>4, <1>5

LEMMA AnswerLostOneKey == ASSUME Typed, OneKey, NEW c \in 1 .. MaxCalls, AnswerLost(c) PROVE OneKey'
<1> DEFINE stage == IF calls[c].at = "sent" THEN "adrift" ELSE "over"
<1>1. UNCHANGED <<task, server>> /\ Resolves(c, stage) /\ form' = IF form.busy = c THEN AfterLoss(form) ELSE form
  BY AnswerLostTyped
<1>2. form \in FormsOf /\ form.key \in Nat /\ 0 \in 0 .. MaxCalls
  BY ClientAssumption DEF Typed, CallsTyped, FormsOf
<1>3. /\ form' \in FormsOf /\ form'.first = form.first /\ form'.key = form.key /\ form'.misled = form.misled
      /\ form'.busy = IF form.busy = c THEN 0 ELSE form.busy
  BY <1>1, <1>2 DEF AfterLoss, FormsOf
<1> HIDE DEF stage
<1> QED
  BY <1>1, <1>2, <1>3, ResolvedOneKey

LEMMA NextOneKey == ASSUME Typed, OneKey, [Next]_vars PROVE OneKey'
<1>1. DOMAIN calls = 1 .. MaxCalls
  BY DEF Typed, CallsTyped, CallsOf
<1>2. CASE TaskNext
  BY <1>1, <1>2, SubmitOneKey, CommitOneKey, AnswerOkOneKey, AnswerErrorOneKey, AnswerLostOneKey DEF TaskNext
<1>3. CASE QueryNext \/ SessionNext \/ \E p \in pages : OpenPage(p)
  BY <1>3, FormLeft, OneKeyLeft
<1>4. CASE UNCHANGED vars
  BY <1>4, OneKeyLeft DEF vars
<1> QED
  BY <1>2, <1>3, <1>4 DEF Next

\* However often, and after whatever losses, a form of an idempotent request is sent, the
\* server carries out at most one request of it, unless an error answer made it take a new key
\* while the old one named, or might yet name, a request.
THEOREM FormsMakeOneRequest == Spec => []OneRequestPerForm
<1>1. Init => OneKey
  <2> SUFFICES ASSUME Init PROVE OneKey
    OBVIOUS
  <2>1. form.first = 1 /\ form.key = 1 /\ server.keys = {} /\ \A c \in DOMAIN calls : calls[c].at = "idle"
    BY DEF Init, Idle
  <2>2. GivenUp = {}
    BY <2>1 DEF GivenUp
  <2> QED
    BY <2>1, <2>2 DEF OneKey, Awaited
<1>2. Typed /\ OneKey /\ [Next]_vars => OneKey'
  BY NextOneKey
<1>3. Typed /\ OneKey => OneRequestPerForm
  <2> SUFFICES ASSUME Typed, OneKey, task.keyed, ~form.misled
               PROVE  Cardinality(server.keys \cap form.first .. form.key) <= 1
    BY DEF OneRequestPerForm
  <2>1. server.keys \cap form.first .. form.key \subseteq {form.key}
    BY DEF OneKey, GivenUp, Typed, CallsTyped, FormsOf
  <2>2. IsFiniteSet({form.key}) /\ Cardinality({form.key}) = 1
    BY FS_Singleton
  <2> QED
    BY <2>1, <2>2, FS_Subset, FS_CardinalityType
<1> QED
  BY <1>1, <1>2, <1>3, TypedAlways, PTL DEF Spec

-----------------------------------------------------------------------------
(* A page shows what was done on it *)

LEMMA TaskCovered == ASSUME Typed, ~LeftToAge PROVE Matches(task.stales, query.key)
<1> PICK op, q : op = task /\ q = query
  OBVIOUS
<1>1. op \in Mutations /\ q \in Queries /\ Concerns(op, q)
  BY ClientAssumption DEF Typed, TabTyped
<1>2. ~Ages(op, q)
  BY DEF Ages, LeftToAge
<1> QED
  BY <1>1, <1>2, StalesCover

\* Once what the task wrote is told, nothing of it passes for fresh.
LEMMA Announced ==
    ASSUME Typed, CutOffIsIdle, ~LeftToAge, NEW e, Kept(Invalidate(entry, task.stales), e)
    PROVE  \A told : Sees(e, told)
<1>1. entry \in Entries /\ (entry.cutOff => entry.fetch = "none") /\ Matches(task.stales, query.key)
  BY TaskCovered DEF Typed, TabTyped, CutOffIsIdle
<1>2. Flagged(Invalidate(entry, task.stales))
  BY <1>1, InvalidateKeeps
<1>3. Flagged(e)
  BY <1>2, KeptFlagged
<1> QED
  BY <1>3, FlaggedSees

LEMMA QueryShows == ASSUME Typed, Shows, QueryNext PROVE Shows'
<1>1. /\ UNCHANGED <<task, query, calls, server>> /\ past'.told = past.told
      /\ entry \in Entries
  BY QueryEffects DEF Typed, TabTyped
<1>2. past.told <= server.writes /\ ToldIsDone'
  BY <1>1 DEF Shows, ToldIsDone
<1>3. LeftToAge' = LeftToAge
  BY <1>1 DEF LeftToAge
<1>4. SUFFICES (entry'.cutOff => entry'.fetch = "none") /\ (~LeftToAge => Sees(entry', past.told))
  BY <1>1, <1>2, <1>3 DEF Shows, CutOffIsIdle
<1>5. (entry.cutOff => entry.fetch = "none") /\ (~LeftToAge => Sees(entry, past.told))
  BY DEF Shows, CutOffIsIdle
<1>6. CASE QueryReads
  <2>1. CASE query.scope # "public" /\ cookie = Guest
    <3>1. entry' = [entry EXCEPT !.fetch = "refused"] /\ entry.fetch = "asked"
      BY <1>6, <2>1 DEF QueryReads
    <3> QED
      BY <1>1, <1>5, <3>1 DEF Sees, Entries
  <2>2. CASE ~(query.scope # "public" /\ cookie = Guest)
    <3> PICK got : got = [NoRows EXCEPT !.who = cookie, !.seen = server.writes]
      OBVIOUS
    <3>1. entry' = [entry EXCEPT !.fetch = "read", !.got = got] /\ entry.fetch = "asked"
      BY <1>6, <2>2 DEF QueryReads
    <3>2. got.seen = server.writes
      BY DEF NoRows
    <3>3. got.seen >= past.told
      BY <1>2, <3>2
    <3> QED
      BY <1>1, <1>5, <3>1, <3>3 DEF Sees, Entries
  <2> QED
    BY <2>1, <2>2
<1>7. CASE QueryLands
  <2>1. /\ entry' = [entry EXCEPT !.rows = entry.got, !.got = NoRows, !.fetch = "none", !.stale = FALSE]
        /\ entry.fetch = "read"
    BY <1>7 DEF QueryLands
  <2> QED
    BY <1>1, <1>5, <2>1 DEF Sees, Entries
<1>8. CASE QueryFails
  BY <1>1, <1>5, <1>8 DEF QueryFails, Sees, Entries
<1>9. CASE Poll \/ SocketEvent
  <2>1. Kept(entry, entry')
    BY <1>9, PushEffects
  <2> QED
    BY <1>5, <2>1, KeptSees DEF Kept
<1>10. CASE QueryRefused
  <2> DEFINE e == [entry EXCEPT !.fetch = "none"]
  <2>1. Kept(e, entry')
    BY <1>10, RefusedEffects
  <2>2. (~LeftToAge => Sees(e, past.told)) /\ e.fetch = "none"
    BY <1>1, <1>5 DEF Sees, Entries
  <2> HIDE DEF e
  <2>3. entry'.cutOff => entry'.fetch = "none"
    BY <2>1, <2>2 DEF Kept
  <2> QED
    BY <2>1, <2>2, <2>3, KeptSees
<1> QED
  BY <1>6, <1>7, <1>8, <1>9, <1>10 DEF QueryNext

LEMMA IdentityShows ==
    ASSUME Typed, Shows, SignedOut \/ \E who \in Users : SignIn(who)
    PROVE  Shows'
<1>1. /\ past'.told = 0 /\ entry'.fetch \in {"none", "asked"} /\ (entry'.cutOff => entry'.fetch = "none")
      /\ entry'.rows = NoRows \/ entry'.cutOff
      /\ UNCHANGED <<task, query, calls, server>>
  BY IdentityEffects
<1>2. Sees(entry', past'.told)
  BY <1>1 DEF Sees
<1>3. server.writes \in 0 .. MaxCalls
  BY DEF Typed, CallsTyped
<1>4. ToldIsDone'
  BY <1>1, <1>3 DEF Shows, ToldIsDone
<1> QED
  BY <1>1, <1>2, <1>4 DEF Shows, CutOffIsIdle

\* Whatever else happens to the session, and the pages that open, leave the entry to be asked
\* for again at most.
LEMMA KeptShows ==
    ASSUME Typed, Shows, Kept(entry, entry'), UNCHANGED <<task, query, calls, server>>, past'.told = past.told
    PROVE  Shows'
<1>1. CutOffIsIdle'
  BY DEF Shows, CutOffIsIdle, Kept
<1>2. ToldIsDone'
  BY DEF Shows, ToldIsDone
<1>3. ~LeftToAge' => Sees(entry', past'.told)
  BY KeptSees DEF Shows, LeftToAge
<1> QED
  BY <1>1, <1>2, <1>3 DEF Shows

LEMMA SessionShows == ASSUME Typed, Shows, SessionNext PROVE Shows'
<1>1. entry \in Entries /\ past \in Pasts
  BY DEF Typed, TabTyped
<1>2. CASE MeLands
  BY <1>2, MeLandsEffects, KeptShows DEF MeLands
<1>3. CASE SignInAgain
  BY <1>3, SignInAgainTyped, KeptShows DEF SignInAgain
<1>4. CASE MeReads \/ MeFails \/ TryAgain \/ SessionEnds \/ AskToSignIn \/ SignOut \/ SignOutLost \/ KeepBrowsing
  <2>1. UNCHANGED <<task, query, calls, server, entry>> /\ past'.told = past.told
    BY <1>1, <1>4 DEF MeReads, MeFails, TryAgain, SessionEnds, AskToSignIn, SignOut, SignOutLost, KeepBrowsing, Pasts
  <2> QED
    BY <1>1, <2>1, KeptSame, KeptShows
<1> QED
  BY <1>2, <1>3, <1>4, IdentityShows DEF SessionNext

LEMMA ToldStaysDone ==
    ASSUME Typed, ToldIsDone, NEW c \in 1 .. MaxCalls, NEW stage, Resolves(c, stage), server' = server,
           past' = past \/ past' = [past EXCEPT !.told = Told(c)]
    PROVE  ToldIsDone'
<1>1. /\ calls'[c].seen = calls[c].seen /\ DOMAIN calls' = DOMAIN calls /\ DOMAIN calls = 1 .. MaxCalls
      /\ \A b \in DOMAIN calls : b # c => calls'[b] = calls[b]
  BY ResolvedCall DEF Advances
<1>2. past'.told \in {past.told, calls[c].seen}
  BY ToldTyped DEF Typed, TabTyped, Pasts
<1>3. \A b \in DOMAIN calls' : calls'[b].seen <= server.writes
  BY <1>1 DEF ToldIsDone
<1> QED
  BY <1>1, <1>2, <1>3 DEF ToldIsDone

LEMMA TaskShows == ASSUME Typed, Shows, TaskNext PROVE Shows'
<1>1. /\ DOMAIN calls = 1 .. MaxCalls /\ calls \in CallsOf /\ entry \in Entries /\ past \in Pasts
      /\ server.writes \in 0 .. MaxCalls
  BY DEF Typed, TabTyped, CallsTyped, CallsOf
<1>2. PICK c \in 1 .. MaxCalls : Submit(c) \/ Commit(c) \/ AnswerOk(c) \/ AnswerError(c) \/ AnswerLost(c)
  BY <1>1 DEF TaskNext
<1>3. CASE Submit(c)
  <2>1. UNCHANGED <<task, query, entry, server, past>>
    BY <1>3 DEF Submit
  <2>2. \A b \in DOMAIN calls' : calls'[b].seen <= server.writes
    BY <1>1, <1>3 DEF Submit, Shows, ToldIsDone
  <2> QED
    BY <2>1, <2>2 DEF Shows, ToldIsDone, CutOffIsIdle, LeftToAge
<1>4. CASE Commit(c)
  <2>1. UNCHANGED <<task, query, entry, past>>
    BY <1>4 DEF Commit
  <2> DEFINE writes == IF Recorded(calls[c].key) THEN server.writes ELSE server.writes + 1
  <2>2. /\ server'.writes = writes
        /\ calls' = [calls EXCEPT ![c].at = IF @ = "sent" THEN "committed" ELSE "over", ![c].seen = writes]
    BY <1>4 DEF Commit
  <2>3. server.writes <= writes /\ writes \in Nat
    BY <1>1
  <2> HIDE DEF writes
  <2>4. /\ calls'[c].seen = writes /\ DOMAIN calls' = DOMAIN calls
        /\ \A b \in DOMAIN calls : b # c => calls'[b] = calls[b]
    BY <1>1, <2>2 DEF CallsOf
  <2>5. \A b \in DOMAIN calls : calls[b].seen <= server.writes /\ calls[b].seen \in Nat
    BY <1>1 DEF Shows, ToldIsDone, CallsOf
  <2>6. \A b \in DOMAIN calls' : calls'[b].seen <= server'.writes
    BY <1>1, <2>2, <2>3, <2>4, <2>5
  <2>7. past'.told <= server'.writes
    <3>1. past.told \in Nat /\ past.told <= server.writes /\ server.writes \in Nat /\ past' = past
      <4>1. past' = past /\ past.told <= server.writes
        BY <2>1 DEF Shows, ToldIsDone
      <4>2. past.told \in 0 .. MaxCalls
        BY <1>1 DEF Pasts
      <4> QED
        BY <1>1, <4>1, <4>2, ClientAssumption
    <3> QED
      BY <2>2, <2>3, <3>1
  <2> QED
    BY <2>1, <2>6, <2>7 DEF Shows, ToldIsDone, CutOffIsIdle, LeftToAge
<1>5. ASSUME NEW stage, Resolves(c, stage), UNCHANGED <<task, query, server>>,
             \/ UNCHANGED <<entry, past>>
             \/ Kept(Invalidate(entry, task.stales), entry') /\ past' = [past EXCEPT !.told = Told(c)]
      PROVE  Shows'
  <2>1. ToldIsDone'
    BY <1>5, ToldStaysDone DEF Shows
  <2>2. CASE UNCHANGED <<entry, past>>
    BY <1>5, <2>1, <2>2 DEF Shows, CutOffIsIdle, LeftToAge
  <2>3. CASE Kept(Invalidate(entry, task.stales), entry')
    <3>1. Kept(entry, entry')
      BY <1>1, <2>3, InvalidateKeeps, KeptTwice
    <3>2. CutOffIsIdle'
      BY <3>1 DEF Shows, CutOffIsIdle, Kept
    <3>3. ~LeftToAge => Sees(entry', past'.told)
      BY <2>3, Announced DEF Shows
    <3> QED
      BY <1>5, <2>1, <3>2, <3>3 DEF Shows, LeftToAge
  <2> QED
    BY <1>5, <2>2, <2>3
<1>6. CASE AnswerOk(c)
  <2>1. /\ Resolves(c, "over") /\ Kept(Invalidate(entry, task.stales), entry')
        /\ UNCHANGED <<task, query, server>> /\ past' = [past EXCEPT !.told = Told(c)]
    BY <1>6, AnswerOkTyped
  <2> QED
    BY <1>5, <2>1
<1>7. CASE AnswerError(c) \/ AnswerLost(c)
  <2>1. Settled(c) /\ UNCHANGED <<task, query, server>> /\ \E stage : Resolves(c, stage)
    BY <1>7, AnswerErrorTyped, AnswerLostTyped
  <2>2. PICK stage : Resolves(c, stage)
    BY <2>1
  <2>3. Kept(Invalidate(entry, task.stales), Invalidate(entry, task.stales))
    BY <1>1, InvalidateKeeps, KeptSame DEF Kept
  <2>4. \/ UNCHANGED <<entry, past>>
        \/ Kept(Invalidate(entry, task.stales), entry') /\ past' = [past EXCEPT !.told = Told(c)]
    BY <2>1, <2>3, SettledTyped
  <2> QED
    BY <1>5, <2>1, <2>2, <2>4
<1> QED
  BY <1>2, <1>3, <1>4, <1>6, <1>7

LEMMA NextShows == ASSUME Typed, Shows, [Next]_vars PROVE Shows'
<1>1. ASSUME NEW p \in pages, OpenPage(p) PROVE Shows'
  <2>1. UNCHANGED <<task, query, calls, server>> /\ past'.told = past.told
    BY <1>1 DEF OpenPage, Typed, TabTyped, Pasts
  <2> QED
    BY <1>1, <2>1, OpenPageTyped, KeptShows
<1>2. CASE UNCHANGED vars
  BY <1>2 DEF vars, Shows, CutOffIsIdle, ToldIsDone, Sees, LeftToAge
<1> QED
  BY <1>1, <1>2, QueryShows, SessionShows, TaskShows DEF Next

\* Once the answer to a write is in, no query that the tab has mounted and settled lists the
\* state before it, for every mutation of the client and every query that reads what it
\* writes, but those the property leaves out.
THEOREM OwnWritesStayShown == Spec => []OwnWritesShow
<1>1. Init => Shows
  <2> SUFFICES ASSUME Init PROVE Shows
    OBVIOUS
  <2>1. PICK who, loaded :
          entry = IF ~OnScreen(page, who) THEN Absent
                  ELSE IF loaded THEN [Absent EXCEPT !.rows = [NoRows EXCEPT !.who = who, !.seen = 0]]
                  ELSE Refetch(Absent)
    BY DEF Init
  <2>2. past.told = 0 /\ server.writes = 0 /\ \A c \in DOMAIN calls : calls[c].seen = 0
    BY DEF Init, Idle
  <2>3. Sees(Absent, 0) /\ ~Absent.cutOff /\ Sees(Refetch(Absent), 0) /\ ~Refetch(Absent).cutOff
    BY DEF Sees, Absent, Refetch
  <2>4. LET e == [Absent EXCEPT !.rows = [NoRows EXCEPT !.who = who, !.seen = 0]] IN Sees(e, 0) /\ ~e.cutOff
    <3> DEFINE rows == [NoRows EXCEPT !.who = who, !.seen = 0]
               e == [Absent EXCEPT !.rows = rows]
    <3>1. rows.seen = 0
      BY DEF NoRows
    <3> HIDE DEF rows
    <3>2. e.rows = rows /\ e.fetch = "none" /\ ~e.cutOff
      BY DEF Absent
    <3> HIDE DEF e
    <3>3. Sees(e, 0)
      BY <3>1, <3>2 DEF Sees
    <3> QED
      BY <3>2, <3>3 DEF e, rows
  <2>5. Sees(entry, 0) /\ ~entry.cutOff
    BY <2>1, <2>3, <2>4
  <2> QED
    BY <2>2, <2>5 DEF Shows, CutOffIsIdle, ToldIsDone
<1>2. Typed /\ Shows /\ [Next]_vars => Shows'
  BY NextShows
<1>3. Shows => OwnWritesShow
  BY DEF Shows, Sees, OwnWritesShow, Fresh, HasRows
<1> QED
  BY <1>1, <1>2, <1>3, TypedAlways, PTL DEF Spec

=============================================================================
