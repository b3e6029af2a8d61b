\* A damaged file is set aside, and its incident is reported until that gets through: refuted.
SPECIFICATION StoreSpec
CONSTANTS
    Awards = {x, y}
    Service = Service Menu = Menu
    StoreFaults = 2
    NoFile = NoFile NoIncident = NoIncident
INVARIANTS SetAsideFirst ReportGotThrough
