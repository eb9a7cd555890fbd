SPECIFICATION FairSpec
CONSTANTS
  Users = {customer}
  Assets = {usdt}
  Pairs = {}
  Amounts = {}
  Fees = {}
  Opening <- MCOpening
  Requests = {r1, r2}
  Customer = customer
  Asset = usdt
  Hashes = {h1}
  DepositAmounts = {1}
  MinDeposit = 1
  WithdrawalAmounts = {1000, 10000}
  RequiredConfirmations = 2
  MaxRequests = 4
  MaxFaults = 1
INVARIANTS PaidOnGrounds EventsAccounted
PROPERTIES ConfirmedIsSettled
CHECK_DEADLOCK FALSE
