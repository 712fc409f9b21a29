\* One account, two calls: two tabs, a tab and a change of password, or two
\* changes.  Three tokens: two sessions, or one refreshed twice.
CONSTANTS
  Accounts = {a1}
  Passwords = {1, 2}
  Tokens = {1, 2, 3}
  Calls = {1, 2}
  None = None
SPECIFICATION LiveSpec
INVARIANTS TypeOK PresentPassword OneTokenPerSession
PROPERTY StaysSignedIn
CONSTRAINT Bounded
ACTION_CONSTRAINT InOrder
\* When every token was drawn and has expired, only the passwords remain.
CHECK_DEADLOCK FALSE
